---- MODULE Spec2Model ----
(***************************************************************************)
(* A model of the brailliant bitmap canvas (src/brailliant/canvas.py) and  *)
(* the Braille cell codec (src/brailliant/base.py).                        *)
(*                                                                         *)
(* Representation.  A bitarray is a sequence over {0, 1}; Python's item i  *)
(* is element i + 1.  A str is a sequence of code points; "\n" is 10.      *)
(* Canvas objects live in the sequence canvases and refer to their         *)
(* bitarray by its position in heap, so that two canvases sharing one      *)
(* bitarray object can be told from two canvases holding equal bits.       *)
(* last is the record of the latest call.  drawn[c] is the history of the  *)
(* canvas c: the coordinates given to it in 'add' mode, and whether that   *)
(* is all that ever happened to it since it was created empty.  tables    *)
(* holds the two module-level dicts of base.py, each as a function from    *)
(* its keys; None is <<>> and an optional integer n that is given is <<n>>. *)
(* video is the ffmpeg process of the command-line player                  *)
(* (src/brailliant/cli.py, cli_utils.py): the bytes of its standard        *)
(* output, what extract_frames_from_video has read and yielded of them,    *)
(* and the frames written to the output.                                   *)
(***************************************************************************)
EXTENDS Integers, Sequences, FiniteSets

VARIABLES canvases, heap, last, nops, drawn, tables, video

vars == <<canvases, heap, last, nops, drawn, tables, video>>

(***************************************************************************)
(* Bounds of the model                                                     *)
(***************************************************************************)
MaxWidthDots == 4

MaxHeightDots == 8

MaxCells == 2

MaxOps == 2

MaxCanvases == 3

MaxCoords == 2

(***************************************************************************)
(* Program constants.  BRAILLE_COLS and BRAILLE_ROWS are imported by       *)
(* canvas.py from the package; they are the 2 columns and 4 rows of a cell *)
(* that get_char writes out as literals.                                   *)
(***************************************************************************)
BRAILLE_RANGE_START == 10240

BRAILLE_COLS == 2

BRAILLE_ROWS == 4

NEWLINE == 10

(***************************************************************************)
(* Python built-ins used by the code                                       *)
(***************************************************************************)
Min(a, b) == IF a < b THEN a ELSE b

Max(a, b) == IF a > b THEN a ELSE b

\* A slice bound as Python clamps it for a sequence of length n.
PyBound(n, i) == IF i < 0 THEN Max(n + i, 0) ELSE Min(i, n)

\* s[a:b]
PySlice(s, a, b) ==
    LET lo == PyBound(Len(s), a)
        hi == PyBound(Len(s), b)
    IN  IF lo >= hi THEN <<>> ELSE SubSeq(s, lo + 1, hi)

\* s[a:]
PySliceFrom(s, a) == PySlice(s, a, Len(s))

\* s[i] is defined for -len(s) <= i < len(s); otherwise IndexError.
PyIndexOk(n, i) == -n <= i /\ i < n

\* The position (from 0) that s[i] names.
PyIndex(n, i) == IF i < 0 THEN n + i ELSE i

\* round(n / d) for d > 0: to the nearest integer, a tie to the even one.
PyRound(n, d) ==
    LET q == n \div d
        r == n % d
    IN  IF 2 * r < d THEN q
        ELSE IF 2 * r > d THEN q + 1
        ELSE IF q % 2 = 0 THEN q ELSE q + 1

RECURSIVE SplitAcc(_, _, _, _)
SplitAcc(s, i, cur, acc) ==
    IF i > Len(s) THEN <<acc, cur>>
    ELSE IF s[i] = NEWLINE THEN SplitAcc(s, i + 1, <<>>, Append(acc, cur))
    ELSE SplitAcc(s, i + 1, Append(cur, s[i]), acc)

\* str.splitlines(): no empty last line after a final line break.
splitlines(s) ==
    LET p == SplitAcc(s, 1, <<>>, <<>>)
    IN  IF p[2] = <<>> THEN p[1] ELSE Append(p[1], p[2])

RECURSIVE join_without_sep(_, _)
\* sep.join(parts) leaving the separator out.
join_without_sep(sep, parts) ==
    IF parts = <<>> THEN <<>> ELSE parts[1] \o join_without_sep(sep, Tail(parts))

RECURSIVE join(_, _)
\* sep.join(parts)
join(sep, parts) ==
    IF parts = <<>> THEN <<>>
    ELSE IF Len(parts) = 1 THEN parts[1]
    ELSE parts[1] \o sep \o join(sep, Tail(parts))

RECURSIVE chain(_)
\* itertools.chain.from_iterable
chain(seqs) == IF seqs = <<>> THEN <<>> ELSE Head(seqs) \o chain(Tail(seqs))

\* bitarray.setall(v)
setall(ba, v) == [i \in 1..Len(ba) |-> v]

\* bitarray.invert()
ba_invert(ba) == [i \in 1..Len(ba) |-> 1 - ba[i]]

\* ba[i] = v for an index Python accepts
setitem(ba, i, v) == [ba EXCEPT ![PyIndex(Len(ba), i) + 1] = v]

\* operator.or_ taken for operator.and_
or_as_and(a, b) == [i \in 1..Len(a) |-> IF a[i] = 1 /\ b[i] = 1 THEN 1 ELSE 0]

\* operator.or_, operator.and_, operator.xor on two bitarrays of one length
or_(a, b) == [i \in 1..Len(a) |-> IF a[i] = 1 \/ b[i] = 1 THEN 1 ELSE 0]

and_(a, b) == [i \in 1..Len(a) |-> IF a[i] = 1 /\ b[i] = 1 THEN 1 ELSE 0]

xor(a, b) == [i \in 1..Len(a) |-> IF a[i] # b[i] THEN 1 ELSE 0]

Operations == {"or_", "and_", "xor"}

operation_apply(operation, a, b) ==
    CASE operation = "or_" -> or_(a, b)
      [] operation = "and_" -> and_(a, b)
      [] operation = "xor" -> xor(a, b)

(***************************************************************************)
(* base.py: the cell codec                                                 *)
(***************************************************************************)
coords_braille_mapping_keys ==
    {<<0, 3>>, <<0, 2>>, <<0, 1>>, <<0, 0>>, <<1, 3>>, <<1, 2>>, <<1, 1>>, <<1, 0>>,
     <<0, -1>>, <<1, -1>>}

coords_braille_mapping(coord) ==
    CASE coord = <<0, 3>> -> 1
      [] coord = <<0, 2>> -> 2
      [] coord = <<0, 1>> -> 4
      [] coord = <<0, 0>> -> 64
      [] coord = <<1, 3>> -> 8
      [] coord = <<1, 2>> -> 16
      [] coord = <<1, 1>> -> 32
      [] coord = <<1, 0>> -> 128
      [] coord = <<0, -1>> -> 0
      [] coord = <<1, -1>> -> 0

coords_braille_mapping_filled(coord) ==
    CASE coord = <<0, 3>> -> 1 + 2 + 4 + 64
      [] coord = <<0, 2>> -> 2 + 4 + 64
      [] coord = <<0, 1>> -> 4 + 64
      [] coord = <<0, 0>> -> 64
      [] coord = <<1, 3>> -> 8 + 16 + 32 + 128
      [] coord = <<1, 2>> -> 16 + 32 + 128
      [] coord = <<1, 1>> -> 32 + 128
      [] coord = <<1, 0>> -> 128
      [] coord = <<0, -1>> -> 0
      [] coord = <<1, -1>> -> 0

\* The two dicts as the module constructs them.
Tables ==
    [coords_braille_mapping |->
        [k \in coords_braille_mapping_keys |-> coords_braille_mapping(k)],
     coords_braille_mapping_filled |->
        [k \in coords_braille_mapping_keys |-> coords_braille_mapping_filled(k)]]

(***************************************************************************)
(* canvas.py: the table that decodes 8 cell bits to a character.  Entry i  *)
(* (from 0) is the character whose code is the 8 bits of i, first bit the  *)
(* most significant.                                                       *)
(***************************************************************************)
braille_table_bitarray ==
 <<
    10240, 10368, 10304, 10432, 10272, 10400, 10336, 10464, 10244, 10372, 10308, 10436, 10276, 10404, 10340, 10468,
    10256, 10384, 10320, 10448, 10288, 10416, 10352, 10480, 10260, 10388, 10324, 10452, 10292, 10420, 10356, 10484,
    10242, 10370, 10306, 10434, 10274, 10402, 10338, 10466, 10246, 10374, 10310, 10438, 10278, 10406, 10342, 10470,
    10258, 10386, 10322, 10450, 10290, 10418, 10354, 10482, 10262, 10390, 10326, 10454, 10294, 10422, 10358, 10486,
    10248, 10376, 10312, 10440, 10280, 10408, 10344, 10472, 10252, 10380, 10316, 10444, 10284, 10412, 10348, 10476,
    10264, 10392, 10328, 10456, 10296, 10424, 10360, 10488, 10268, 10396, 10332, 10460, 10300, 10428, 10364, 10492,
    10250, 10378, 10314, 10442, 10282, 10410, 10346, 10474, 10254, 10382, 10318, 10446, 10286, 10414, 10350, 10478,
    10266, 10394, 10330, 10458, 10298, 10426, 10362, 10490, 10270, 10398, 10334, 10462, 10302, 10430, 10366, 10494,
    10241, 10369, 10305, 10433, 10273, 10401, 10337, 10465, 10245, 10373, 10309, 10437, 10277, 10405, 10341, 10469,
    10257, 10385, 10321, 10449, 10289, 10417, 10353, 10481, 10261, 10389, 10325, 10453, 10293, 10421, 10357, 10485,
    10243, 10371, 10307, 10435, 10275, 10403, 10339, 10467, 10247, 10375, 10311, 10439, 10279, 10407, 10343, 10471,
    10259, 10387, 10323, 10451, 10291, 10419, 10355, 10483, 10263, 10391, 10327, 10455, 10295, 10423, 10359, 10487,
    10249, 10377, 10313, 10441, 10281, 10409, 10345, 10473, 10253, 10381, 10317, 10445, 10285, 10413, 10349, 10477,
    10265, 10393, 10329, 10457, 10297, 10425, 10361, 10489, 10269, 10397, 10333, 10461, 10301, 10429, 10365, 10493,
    10251, 10379, 10315, 10443, 10283, 10411, 10347, 10475, 10255, 10383, 10319, 10447, 10287, 10415, 10351, 10479,
    10267, 10395, 10331, 10459, 10299, 10427, 10363, 10491, 10271, 10399, 10335, 10463, 10303, 10431, 10367, 10495
 >>

\* BitsValue reading the least significant bit first.
RECURSIVE BitsValueLsbFirst(_)
BitsValueLsbFirst(bits) ==
    IF bits = <<>> THEN 0 ELSE bits[1] + 2 * BitsValueLsbFirst(Tail(bits))

\* The number whose binary digits, most significant first, are bits.
RECURSIVE BitsValue(_)
BitsValue(bits) ==
    IF bits = <<>> THEN 0
    ELSE 2 * BitsValue(SubSeq(bits, 1, Len(bits) - 1)) + bits[Len(bits)]

\* bitarray.decode(braille_table_bitarray): every code is 8 bits long, so
\* the bits are read 8 at a time.
decode(line) ==
    [k \in 1..(Len(line) \div 8) |->
        braille_table_bitarray[BitsValue(SubSeq(line, 8 * (k - 1) + 1, 8 * k)) + 1]]

RECURSIVE get_char_rows(_, _, _, _, _, _)
get_char_rows(char, grid, x, y, w, i) ==
    IF i = 4 THEN char
    ELSE LET start == (y * 4 + i) * w + x * 2
             end == start + 2
         IN  get_char_rows(PySlice(char, 0, 2 * i) \o PySlice(grid, start, end)
                               \o PySliceFrom(char, 2 * i + 2),
                           grid, x, y, w, i + 1)

\* bitarray(8) holds 8 items of no defined value, written "?" here: an
\* item that were read before it is assigned would make decode fail.  All
\* 8 are assigned whenever the grid holds w * 4 * (y + 1) bits or more.
get_char(grid, x, y, w) == get_char_rows([i \in 1..8 |-> "?"], grid, x, y, w, 0)

(***************************************************************************)
(* canvas.py: CanvasText                                                   *)
(***************************************************************************)
TextAlign == {"left", "right", "center"}

\* CanvasText(x, y, text, parent, alignment); parent is never read.
CanvasText(x, y, text, alignment) ==
    [x |-> x, y |-> y, text |-> text, alignment |-> alignment]

\* in_split_lines without the offset of one dot.
in_split_lines_unshifted(ct) ==
    LET ls == splitlines(ct.text)
    IN  [k \in 1..Len(ls) |->
            CanvasText(ct.x, ct.y + ((k - 1) * BRAILLE_ROWS), ls[k], ct.alignment)]

in_split_lines(ct) ==
    LET ls == splitlines(ct.text)
    IN  [k \in 1..Len(ls) |->
            CanvasText(ct.x, ct.y + ((k - 1) * BRAILLE_ROWS - 1), ls[k], ct.alignment)]

(***************************************************************************)
(* canvas.py: Canvas                                                       *)
(***************************************************************************)
\* Canvas.__init__ rounding the size down to whole cells.
Canvas__init__RoundDown(width_dots, height_dots, contents) ==
    LET width_chars == width_dots \div BRAILLE_COLS
        height_chars == height_dots \div BRAILLE_ROWS
    IN  [width_chars |-> width_chars,
         height_chars |-> height_chars,
         width |-> width_chars * BRAILLE_COLS,
         height |-> height_chars * BRAILLE_ROWS,
         _canvas |-> contents,
         _text |-> <<>>]

\* Canvas.__init__ for a given bitarray object (the one passed as contents,
\* or the new one of width * height bits).
Canvas__init__(width_dots, height_dots, contents) ==
    LET width_chars == (width_dots + BRAILLE_COLS - 1) \div BRAILLE_COLS
        height_chars == (height_dots + BRAILLE_ROWS - 1) \div BRAILLE_ROWS
    IN  [width_chars |-> width_chars,
         height_chars |-> height_chars,
         width |-> width_chars * BRAILLE_COLS,
         height |-> height_chars * BRAILLE_ROWS,
         _canvas |-> contents,
         _text |-> <<>>]

\* bitarray(self.width * self.height) followed by setall(0)
NewBits(width_dots, height_dots) ==
    LET cv == Canvas__init__(width_dots, height_dots, 0)
    IN  setall([i \in 1..(cv.width * cv.height) |-> 1], 0)

\* cell_index without the inversion of the vertical axis.
cell_index_top_down(cv, x, y) == y * cv.width + x

\* The item of the bitarray that set_cell, clear_cell and with_changes
\* address for the dot (x, y).
cell_index(cv, x, y) == (cv.height - y - 1) * cv.width + x

\* One overlay of get_str applied to the rendered lines.
overlay(lines, text, width_chars) ==
    LET char_length == Len(text.text)
        char_y == PyRound(text.y, BRAILLE_ROWS)
        char_x0 ==
            CASE text.alignment = "left" -> text.x \div BRAILLE_COLS
              [] text.alignment = "center" ->
                    (text.x - ((char_length * BRAILLE_COLS) \div 2)) \div BRAILLE_COLS
              [] text.alignment = "right" ->
                    (text.x - char_length * BRAILLE_COLS) \div BRAILLE_COLS
        txt1 == IF char_x0 < 0 THEN PySliceFrom(text.text, -char_x0) ELSE text.text
        char_x == IF char_x0 < 0 THEN 0 ELSE char_x0
        txt == IF char_x + char_length > width_chars
               THEN PySlice(txt1, 0, width_chars - char_x)
               ELSE txt1
        txt_start == char_x
        txt_end == char_x + Len(txt)
    IN  IF char_y >= Len(lines) THEN [raised |-> "", lines |-> lines]
        ELSE IF ~PyIndexOk(Len(lines), char_y)
             THEN [raised |-> "IndexError", lines |-> lines]
        ELSE LET row == PyIndex(Len(lines), char_y) + 1
             IN  [raised |-> "",
                  lines |-> [lines EXCEPT ![row] =
                                PySlice(@, 0, txt_start) \o txt \o PySliceFrom(@, txt_end)]]

RECURSIVE overlay_all(_, _, _)
overlay_all(lines, text_lines, width_chars) ==
    IF text_lines = <<>> THEN [raised |-> "", lines |-> lines]
    ELSE LET r == overlay(lines, Head(text_lines), width_chars)
         IN  IF r.raised # "" THEN r
             ELSE overlay_all(r.lines, Tail(text_lines), width_chars)

\* The lines of get_str before the text is added.
braille_lines(cv, grid) ==
    [y \in 1..cv.height_chars |->
        decode(chain([x \in 1..cv.width_chars |-> get_char(grid, x - 1, y - 1, cv.width)]))]

\* Canvas.get_str on the canvas cv whose bitarray holds grid.
get_str(cv, grid) ==
    LET text_lines == chain([k \in 1..Len(cv._text) |-> in_split_lines(cv._text[k])])
        r == overlay_all(braille_lines(cv, grid), text_lines, cv.width_chars)
    IN  [raised |-> r.raised,
         value |-> IF r.raised = "" THEN join(<<NEWLINE>>, r.lines) ELSE <<>>]

RECURSIVE changes_unchecked(_, _, _, _)
\* The loop of with_changes without the test of the coordinate against
\* the size of the canvas.
changes_unchecked(cv, ba, coords, val) ==
    IF coords = <<>> THEN [raised |-> "", ba |-> ba]
    ELSE LET x == Head(coords)[1]
             y == Head(coords)[2]
         IN  IF PyIndexOk(Len(ba), cell_index(cv, x, y))
             THEN changes_unchecked(cv, setitem(ba, cell_index(cv, x, y), val),
                                    Tail(coords), val)
             ELSE [raised |-> "IndexError", ba |-> ba]

RECURSIVE changes(_, _, _, _)
\* The loop of with_changes over coords.
changes(cv, ba, coords, val) ==
    IF coords = <<>> THEN [raised |-> "", ba |-> ba]
    ELSE LET x == Head(coords)[1]
             y == Head(coords)[2]
         IN  IF 0 <= x /\ x < cv.width /\ 0 <= y /\ y < cv.height
             THEN IF PyIndexOk(Len(ba), cell_index(cv, x, y))
                  THEN changes(cv, setitem(ba, cell_index(cv, x, y), val), Tail(coords), val)
                  ELSE [raised |-> "IndexError", ba |-> ba]
             ELSE changes(cv, ba, Tail(coords), val)

\* Canvas.__eq__ (other is always a Canvas here)
Canvas__eq__(c, o) == heap[canvases[c]._canvas] = heap[canvases[o]._canvas]

(***************************************************************************)
(* The record of the last call: what was called, with what, how it ended   *)
(* and the objects as they were before it.                                 *)
(***************************************************************************)
NoCall ==
    [op |-> "", self |-> 0, other |-> 0, x |-> 0, y |-> 0, coords |-> <<>>,
     mode |-> "", operation |-> "", text |-> <<>>, alignment |-> "",
     data |-> <<>>, width |-> <<>>, filled |-> FALSE, min_val |-> <<>>, max_val |-> <<>>,
     rounding |-> "", base_level |-> 0, args |-> <<>>,
     raised |-> "", ret |-> 0, value |-> <<>>,
     pre_op |-> "", pre_heap |-> <<>>, pre_canvases |-> <<>>]

Called(op, c) ==
    [NoCall EXCEPT !.op = op, !.self = c, !.ret = c,
                   !.pre_op = last.op, !.pre_heap = heap, !.pre_canvases = canvases]

Objects == 1..Len(canvases)

\* No video is played.
NoVideo ==
    [data |-> <<>>, bytes_per_frame |-> 0, pos |-> 0, chunks |-> <<>>, buf |-> <<>>,
     yielded |-> <<>>, pc |-> "", output |-> <<>>]

Undrawn == [only_add |-> TRUE, coords |-> <<>>]

Tainted == [only_add |-> FALSE, coords |-> <<>>]

Step == nops < MaxOps /\ nops' = nops + 1

(***************************************************************************)
(* Inputs                                                                  *)
(***************************************************************************)
Modes == {"add", "clear", "toggle"}

\* Single-dot coordinates: the corners of the canvas and their neighbours
\* just outside it.
CellXs(cv) == {-1, 0, cv.width - 1, cv.width}

CellYs(cv) == {-1, 0, cv.height - 1, cv.height}

CoordPool(cv) ==
    {<<0, 0>>, <<cv.width - 1, cv.height - 1>>, <<-1, 0>>, <<cv.width, 1>>}

CoordSeqs(cv) ==
    UNION {[1..n -> CoordPool(cv)] : n \in 0..MaxCoords}

Texts == {<<72, 105>>, <<72, 10, 105>>}

TextXs == {0}

TextYs == {1}

\* The sizes a canvas is requested with.
Sizes ==
    {wh \in (1..MaxWidthDots) \X (1..MaxHeightDots) :
        ((wh[1] + 1) \div 2) * ((wh[2] + 3) \div 4) <= MaxCells}

(***************************************************************************)
(* Operations                                                              *)
(***************************************************************************)
Init ==
    \E a \in Sizes, b \in Sizes :
        /\ canvases = <<Canvas__init__(a[1], a[2], 1), Canvas__init__(b[1], b[2], 2)>>
        /\ heap = <<NewBits(a[1], a[2]), NewBits(b[1], b[2])>>
        /\ last = [NoCall EXCEPT !.coords = <<a, b>>]
        /\ nops = 0
        /\ tables = Tables
        /\ video = NoVideo
        /\ drawn = <<Undrawn, Undrawn>>

assign_cell(op, c, x, y, val) ==
    LET cv == canvases[c]
        ba == heap[cv._canvas]
        idx == cell_index(cv, x, y)
        ok == PyIndexOk(Len(ba), idx)
    IN  /\ Step
        /\ UNCHANGED <<tables, video>>
        /\ heap' = IF ok THEN [heap EXCEPT ![cv._canvas] = setitem(ba, idx, val)] ELSE heap
        /\ last' = [Called(op, c) EXCEPT !.x = x, !.y = y,
                        !.raised = IF ok THEN "" ELSE "IndexError",
                        !.ret = IF ok THEN c ELSE 0]
        /\ drawn' = [drawn EXCEPT ![c] = Tainted]
        /\ UNCHANGED canvases

set_cell(c, x, y) == assign_cell("set_cell", c, x, y, 1)

clear_cell(c, x, y) == assign_cell("clear_cell", c, x, y, 0)

fill(c, mode) ==
    /\ Step
    /\ UNCHANGED <<tables, video>>
    /\ heap' = [heap EXCEPT ![canvases[c]._canvas] = setall(@, IF mode = "add" THEN 1 ELSE 0)]
    /\ last' = [Called("fill", c) EXCEPT !.mode = mode]
    /\ drawn' = [drawn EXCEPT ![c] = Tainted]
    /\ UNCHANGED canvases

invert(c) ==
    /\ Step
    /\ UNCHANGED <<tables, video>>
    /\ heap' = [heap EXCEPT ![canvases[c]._canvas] = ba_invert(@)]
    /\ last' = Called("invert", c)
    /\ drawn' = [drawn EXCEPT ![c] = Tainted]
    /\ UNCHANGED canvases

clear_all(c) ==
    /\ Step
    /\ UNCHANGED <<tables, video>>
    /\ heap' = [heap EXCEPT ![canvases[c]._canvas] = setall(@, 0)]
    /\ last' = Called("clear_all", c)
    /\ drawn' = [drawn EXCEPT ![c] = Tainted]
    /\ UNCHANGED canvases

set_all(c) ==
    /\ Step
    /\ UNCHANGED <<tables, video>>
    /\ heap' = [heap EXCEPT ![canvases[c]._canvas] = setall(@, 1)]
    /\ last' = Called("set_all", c)
    /\ drawn' = [drawn EXCEPT ![c] = Tainted]
    /\ UNCHANGED canvases

write_text(c, x, y, text, alignment) ==
    /\ Step
    /\ UNCHANGED <<tables, video>>
    /\ canvases' = [canvases EXCEPT ![c]._text = Append(@, CanvasText(x, y, text, alignment))]
    /\ last' = [Called("write_text", c) EXCEPT !.x = x, !.y = y, !.text = text,
                    !.alignment = alignment]
    /\ drawn' = [drawn EXCEPT ![c] = Tainted]
    /\ UNCHANGED heap

with_changes(c, coords, mode) ==
    LET cv == canvases[c]
        r == changes(cv, heap[cv._canvas], coords, IF mode = "add" THEN 1 ELSE 0)
    IN  /\ Step
        /\ UNCHANGED <<tables, video>>
        /\ IF mode \notin {"add", "clear"}
           THEN /\ last' = [Called("with_changes", c) EXCEPT !.coords = coords, !.mode = mode,
                                !.raised = "ValueError", !.ret = 0]
                /\ UNCHANGED <<heap, drawn>>
           ELSE /\ heap' = [heap EXCEPT ![cv._canvas] = r.ba]
                /\ last' = [Called("with_changes", c) EXCEPT !.coords = coords, !.mode = mode,
                                !.raised = r.raised,
                                !.ret = IF r.raised = "" THEN c ELSE 0]
                /\ drawn' = [drawn EXCEPT ![c] =
                                IF mode = "add" /\ @.only_add
                                THEN [@ EXCEPT !.coords = @ \o coords]
                                ELSE Tainted]
        /\ UNCHANGED canvases

\* operation(self._canvas, other._canvas): the bitwise operators of
\* bitarray raise ValueError for operands of different lengths.
apply_operation(operation, a, b) ==
    IF Len(a) # Len(b) THEN [raised |-> "ValueError", ba |-> <<>>]
    ELSE [raised |-> "", ba |-> operation_apply(operation, a, b)]

apply_other(c, o, operation) ==
    LET r == apply_operation(operation, heap[canvases[c]._canvas], heap[canvases[o]._canvas])
        call == [Called("apply_other", c) EXCEPT !.other = o, !.operation = operation]
    IN  /\ Step
        /\ UNCHANGED <<tables, video>>
        /\ Len(canvases) < MaxCanvases
        /\ IF r.raised # ""
           THEN /\ last' = [call EXCEPT !.raised = r.raised, !.ret = 0]
                /\ UNCHANGED <<heap, canvases, drawn>>
           ELSE /\ heap' = Append(heap, r.ba)
                /\ canvases' = Append(canvases,
                                   Canvas__init__(canvases[c].width, canvases[c].height,
                                                  Len(heap) + 1))
                /\ drawn' = Append(drawn, Tainted)
                /\ last' = [call EXCEPT !.ret = Len(canvases) + 1]

\* copy handing the bitarray of self to the new canvas.
copy_shared(c) ==
    /\ Step
    /\ UNCHANGED <<tables, video>>
    /\ Len(canvases) < MaxCanvases
    /\ heap' = Append(heap, heap[canvases[c]._canvas])
    /\ canvases' = Append(canvases,
                       Canvas__init__(canvases[c].width, canvases[c].height,
                                      canvases[c]._canvas))
    /\ drawn' = Append(drawn, Tainted)
    /\ last' = [Called("copy", c) EXCEPT !.ret = Len(canvases) + 1]

copy(c) ==
    /\ Step
    /\ UNCHANGED <<tables, video>>
    /\ Len(canvases) < MaxCanvases
    /\ heap' = Append(heap, heap[canvases[c]._canvas])
    /\ canvases' = Append(canvases,
                       Canvas__init__(canvases[c].width, canvases[c].height, Len(heap) + 1))
    /\ drawn' = Append(drawn, Tainted)
    /\ last' = [Called("copy", c) EXCEPT !.ret = Len(canvases) + 1]

render(c) ==
    LET r == get_str(canvases[c], heap[canvases[c]._canvas])
    IN  /\ Step
        /\ UNCHANGED <<tables, video>>
        /\ last' = [Called("get_str", c) EXCEPT !.raised = r.raised, !.value = r.value, !.ret = 0]
        /\ UNCHANGED <<heap, canvases, drawn>>

Next ==
    \/ \E c \in Objects : \E x \in CellXs(canvases[c]), y \in CellYs(canvases[c]) :
            set_cell(c, x, y)
    \/ \E c \in Objects : \E x \in CellXs(canvases[c]), y \in CellYs(canvases[c]) :
            clear_cell(c, x, y)
    \/ \E c \in Objects, mode \in Modes : fill(c, mode)
    \/ \E c \in Objects : invert(c)
    \/ \E c \in Objects : clear_all(c)
    \/ \E c \in Objects : set_all(c)
    \/ \E c \in Objects, x \in TextXs, y \in TextYs, text \in Texts, alignment \in TextAlign :
            write_text(c, x, y, text, alignment)
    \/ \E c \in Objects : \E coords \in CoordSeqs(canvases[c]), mode \in Modes :
            /\ mode \in {"add", "clear"} \/ Len(coords) = 1
            /\ with_changes(c, coords, mode)
    \/ \E c \in Objects, o \in Objects, operation \in Operations : apply_other(c, o, operation)
    \/ \E c \in Objects : copy(c)
    \/ \E c \in Objects : render(c)

Spec == Init /\ [][Next]_vars

(***************************************************************************)
(* Rendering of canvases given their contents: a canvas of whole cells is  *)
(* constructed over a bitarray the caller supplies, and rendered.          *)
(***************************************************************************)
RenderSizes ==
    {<<BRAILLE_COLS * wc, BRAILLE_ROWS * hc>> :
        wc \in 1..(MaxWidthDots \div BRAILLE_COLS), hc \in 1..(MaxHeightDots \div BRAILLE_ROWS)}

\* A bitarray of w * h bits that holds the 8 bits of pattern in the cell
\* (cx, cy) and is clear elsewhere.
OneCell(w, h, cx, cy, pattern) ==
    [k \in 1..(w * h) |->
        LET row == (k - 1) \div w
            col == (k - 1) % w
        IN  IF col \div 2 = cx /\ row \div 4 = cy
            THEN pattern[(row % 4) * 2 + (col % 2) + 1]
            ELSE 0]

\* A bitarray of n bits with the bits i and j set.
TwoBits(n, i, j) == [k \in 1..n |-> IF k = i \/ k = j THEN 1 ELSE 0]

Contents(w, h) ==
    {OneCell(w, h, cx, cy, pattern) :
        cx \in 0..(w \div 2 - 1), cy \in 0..(h \div 4 - 1), pattern \in [1..8 -> {0, 1}]}
    \cup {TwoBits(w * h, i, j) : i \in 1..(w * h), j \in 1..(w * h)}

InitRender ==
    \E size \in RenderSizes : \E contents \in Contents(size[1], size[2]) :
        /\ canvases = <<Canvas__init__(size[1], size[2], 1)>>
        /\ heap = <<contents>>
        /\ last = NoCall
        /\ nops = 0
        /\ tables = Tables
        /\ video = NoVideo
        /\ drawn = <<Tainted>>

NextRender == \E c \in Objects : render(c)

SpecRender == InitRender /\ [][NextRender]_vars

(***************************************************************************)
(* What the claims speak of                                                *)
(***************************************************************************)
\* The dot (x, y) of a canvas with bits ba: rows are stored top to bottom,
\* row 0 of the dots being the last stored row.
DotIsSet(cv, ba, x, y) == ba[(cv.height - 1 - y) * cv.width + x + 1] = 1

InRange(cv, x, y) == 0 <= x /\ x < cv.width /\ 0 <= y /\ y < cv.height

Dots(cv) == (0..(cv.width - 1)) \X (0..(cv.height - 1))

SetDots(cv, ba) == {d \in Dots(cv) : DotIsSet(cv, ba, d[1], d[2])}

bits_of(c) == heap[canvases[c]._canvas]

pre_bits_of(c) == last.pre_heap[last.pre_canvases[c]._canvas]

\* a + b in the place of a | b
BitAdd(a, b) == a + b

RECURSIVE BitOr(_, _)
\* a | b for naturals
BitOr(a, b) ==
    IF a = 0 THEN b
    ELSE IF b = 0 THEN a
    ELSE (IF a % 2 = 1 \/ b % 2 = 1 THEN 1 ELSE 0) + 2 * BitOr(a \div 2, b \div 2)

RECURSIVE OrOver(_)
OrOver(ns) ==
    IF ns = {} THEN 0
    ELSE LET n == CHOOSE n \in ns : TRUE IN BitOr(n, OrOver(ns \ {n}))

\* str.split("\n")
Lines(str) == LET p == SplitAcc(str, 1, <<>>, <<>>) IN Append(p[1], p[2])

\* The byte of the cell in character column col and character row r from
\* the top, as the codec table gives it for the dots set in that cell.
CellByte(cv, ba, r, col) ==
    OrOver({coords_braille_mapping(<<d[1] % 2, d[2] % 4>>) :
                d \in {e \in SetDots(cv, ba) :
                          e[1] \div 2 = col /\ e[2] \div 4 = cv.height_chars - 1 - r}})

Rendered(c) == get_str(canvases[c], bits_of(c))

\* C1: for every canvas with no pending text, get_str() returns
\* height_chars lines joined by newlines, each of width_chars characters,
\* and the character in row r (0 = top), column c is chr(0x2800 | b), b
\* being the OR of coords_braille_mapping[(x mod 2, y mod 4)] over the set
\* dots (x, y) with x div 2 = c and y div 4 = height_chars - 1 - r.
C1_GetStrCells ==
    \A c \in Objects :
        canvases[c]._text = <<>> =>
            LET cv == canvases[c]
                str == Rendered(c)
                ls == Lines(str.value)
            IN  /\ str.raised = ""
                /\ last.op = "get_str" /\ last.self = c => last.value = str.value
                /\ Len(ls) = cv.height_chars
                /\ \A r \in 1..Len(ls) :
                      /\ Len(ls[r]) = cv.width_chars
                      /\ \A col \in 1..Len(ls[r]) :
                            ls[r][col] = BitOr(BRAILLE_RANGE_START,
                                               CellByte(cv, bits_of(c), r - 1, col - 1))

\* get_str has returned for a canvas of 2 x 2 cells with dots set in two
\* different rows and columns of cells.
C1_Witness ==
    /\ last.op = "get_str"
    /\ last.raised = ""
    /\ canvases[last.self].width_chars = 2
    /\ canvases[last.self].height_chars = 2
    /\ DotIsSet(canvases[last.self], bits_of(last.self), 0, 0)
    /\ DotIsSet(canvases[last.self], bits_of(last.self), 3, 6)

\* The least k with d * k >= n.
CeilDiv(n, d) == CHOOSE k \in 0..n : d * k >= n /\ d * (k - 1) < n

PreObjects == 1..Len(last.pre_canvases)

SameSize(cv, ov) == cv.width = ov.width /\ cv.height = ov.height

SizeOf(cv) == <<cv.width_chars, cv.height_chars, cv.width, cv.height>>

Mutators ==
    {"set_cell", "clear_cell", "fill", "invert", "clear_all", "set_all", "with_changes",
     "write_text"}

\* C2: Canvas(width_dots, height_dots) has width_chars = ceil(width_dots/2),
\* height_chars = ceil(height_dots/4), width = 2*width_chars, height =
\* 4*height_chars and an all-zero buffer of width*height bits; after any
\* sequence of operations the four sizes are unchanged and the buffer still
\* has width*height bits.
C2_Dimensions ==
    /\ last.op = "" =>
          \A k \in Objects :
              LET cv == canvases[k]
              IN  /\ cv.width_chars = CeilDiv(last.coords[k][1], 2)
                  /\ cv.height_chars = CeilDiv(last.coords[k][2], 4)
                  /\ cv.width = 2 * cv.width_chars
                  /\ cv.height = 4 * cv.height_chars
                  /\ Len(bits_of(k)) = cv.width * cv.height
                  /\ \A i \in 1..Len(bits_of(k)) : bits_of(k)[i] = 0
    /\ last.op # "" =>
          \A c \in PreObjects : SizeOf(canvases[c]) = SizeOf(last.pre_canvases[c])
    /\ \A c \in Objects : Len(bits_of(c)) = canvases[c].width * canvases[c].height

\* Two operations have changed the bits of a canvas.
C2_Witness ==
    /\ nops = 2
    /\ last.op = "with_changes"
    /\ last.pre_op = "invert"
    /\ bits_of(last.self) # pre_bits_of(last.self)

\* C3: with_changes(coords, mode) with a valid mode never fails because of
\* an out-of-range coordinate: the result is that of applying mode to the
\* coordinates with 0 <= x < width and 0 <= y < height only, and every dot
\* not named by such a coordinate is unchanged.
C3_WithChangesSkips ==
    last.op = "with_changes" /\ last.mode \in {"add", "clear"} =>
        LET c == last.self
            cv == canvases[c]
            named(d) == \E k \in 1..Len(last.coords) : last.coords[k] = d
            inside(xy) == InRange(cv, xy[1], xy[2])
        IN  /\ last.raised = ""
            /\ last.ret = c
            /\ canvases = last.pre_canvases
            /\ Len(bits_of(c)) = Len(pre_bits_of(c))
            /\ \A d \in Dots(cv) :
                  DotIsSet(cv, bits_of(c), d[1], d[2]) =
                      IF named(d) THEN last.mode = "add"
                      ELSE DotIsSet(cv, pre_bits_of(c), d[1], d[2])
            /\ bits_of(c) =
                  changes(cv, pre_bits_of(c), SelectSeq(last.coords, inside),
                          IF last.mode = "add" THEN 1 ELSE 0).ba
            /\ \A b \in 1..Len(heap) : b # cv._canvas => heap[b] = last.pre_heap[b]

\* with_changes has cleared a dot of a canvas holding other dots, given a
\* coordinate outside the canvas before the one inside it.
C3_Witness ==
    /\ last.op = "with_changes"
    /\ last.mode = "clear"
    /\ last.raised = ""
    /\ last.coords = <<<<-1, 0>>, <<0, 0>>>>
    /\ DotIsSet(canvases[last.self], pre_bits_of(last.self), 0, 0)
    /\ SetDots(canvases[last.self], bits_of(last.self)) # {}

\* C4: for an in-range (x, y), after set_cell(x, y) the dot (x, y) is set
\* and every other dot is unchanged; after a following clear_cell(x, y) the
\* dot is unset and every other dot is still unchanged.
C4_SetClearCell ==
    last.op \in {"set_cell", "clear_cell"}
        /\ InRange(last.pre_canvases[last.self], last.x, last.y) =>
        LET c == last.self
            cv == canvases[c]
        IN  /\ last.raised = ""
            /\ canvases = last.pre_canvases
            /\ DotIsSet(cv, bits_of(c), last.x, last.y) = (last.op = "set_cell")
            /\ \A d \in Dots(cv) :
                  d # <<last.x, last.y>> =>
                      DotIsSet(cv, bits_of(c), d[1], d[2])
                          = DotIsSet(cv, pre_bits_of(c), d[1], d[2])
            /\ \A o \in Objects : o # c => bits_of(o) = pre_bits_of(o)

\* clear_cell(x, y) has followed set_cell(x, y) on the top right dot.
C4_Witness ==
    /\ last.op = "clear_cell"
    /\ last.pre_op = "set_cell"
    /\ last.x = canvases[last.self].width - 1
    /\ last.y = canvases[last.self].height - 1
    /\ DotIsSet(canvases[last.self], pre_bits_of(last.self), last.x, last.y)
    /\ ~DotIsSet(canvases[last.self], bits_of(last.self), last.x, last.y)

\* C5: set_cell(x, y) and clear_cell(x, y) with a coordinate outside
\* [0, width) x [0, height) fail with an error and change no dot.
C5_OutOfRangeFails ==
    last.op \in {"set_cell", "clear_cell"}
        /\ ~InRange(last.pre_canvases[last.self], last.x, last.y) =>
        /\ last.raised # ""
        /\ heap = last.pre_heap

\* C6: apply_other fails with an error and returns no canvas whenever the
\* widths or the heights of the two canvases differ.
C6_SizeMismatchFails ==
    last.op = "apply_other"
        /\ ~SameSize(last.pre_canvases[last.self], last.pre_canvases[last.other]) =>
        /\ last.raised # ""
        /\ last.ret = 0
        /\ canvases = last.pre_canvases

\* C7: copy() and |, &, ^ on equal-size canvases return a new canvas whose
\* buffer is the operand's buffer, or the bitwise OR / AND / XOR of the two
\* buffers; the operands are unchanged; a later mutation of one canvas
\* changes no other canvas.
C7_NewIndependentCanvas ==
    LET unchanged(c) == canvases[c] = last.pre_canvases[c] /\ bits_of(c) = pre_bits_of(c)
        a == pre_bits_of(last.self)
        b == pre_bits_of(last.other)
        bit(i) == CASE last.operation = "or_" -> Max(a[i], b[i])
                    [] last.operation = "and_" -> a[i] * b[i]
                    [] last.operation = "xor" -> (a[i] + b[i]) % 2
    IN  /\ last.op = "copy" =>
              /\ last.raised = ""
              /\ last.ret = Len(last.pre_canvases) + 1
              /\ last.ret \in Objects
              /\ SizeOf(canvases[last.ret]) = SizeOf(last.pre_canvases[last.self])
              /\ bits_of(last.ret) = a
              /\ \A c \in PreObjects : unchanged(c)
        /\ last.op = "apply_other"
              /\ SameSize(last.pre_canvases[last.self], last.pre_canvases[last.other]) =>
              /\ last.raised = ""
              /\ last.ret = Len(last.pre_canvases) + 1
              /\ last.ret \in Objects
              /\ SizeOf(canvases[last.ret]) = SizeOf(last.pre_canvases[last.self])
              /\ Len(bits_of(last.ret)) = Len(a)
              /\ \A i \in 1..Len(a) : bits_of(last.ret)[i] = bit(i)
              /\ \A c \in PreObjects : unchanged(c)
        /\ last.op \in Mutators =>
              \A c \in Objects : c # last.self => bits_of(c) = pre_bits_of(c)

\* A canvas returned by copy() has been changed by set_cell.
C7_Witness ==
    /\ last.op = "set_cell"
    /\ last.pre_op = "copy"
    /\ last.self = 3
    /\ bits_of(3) # pre_bits_of(3)

\* C8: ~canvas returns a new canvas holding the complement of the operand's
\* buffer and leaves the operand unchanged.
C8_InvertReturnsNew ==
    last.op = "invert" =>
        /\ last.ret \notin PreObjects
        /\ last.ret \in Objects
        /\ bits_of(last.ret) = ba_invert(pre_bits_of(last.self))
        /\ bits_of(last.self) = pre_bits_of(last.self)

\* The lines of a canvas of blank cells.
BlankLines(cv) == [r \in 1..cv.height_chars |-> [col \in 1..cv.width_chars |-> BRAILLE_RANGE_START]]

RendersBlank(c) ==
    LET r == Rendered(c)
    IN  r.raised = "" /\ Lines(r.value) = BlankLines(canvases[c])

\* C9 as stated: in every reachable state of a canvas in which no dot is
\* set, get_str() returns height_chars lines of width_chars times
\* chr(0x2800).
C9_NoDotsRendersBlank ==
    \A c \in Objects : SetDots(canvases[c], bits_of(c)) = {} => RendersBlank(c)

\* C9 as amended: a canvas has no dot set after clear_all() and after
\* fill('clear'), and in every reachable state of a canvas in which no dot
\* is set and no text is pending get_str() returns height_chars lines of
\* width_chars times chr(0x2800).
C9_NoDotsNoTextRendersBlank ==
    /\ last.op = "clear_all" \/ (last.op = "fill" /\ last.mode = "clear") =>
          SetDots(canvases[last.self], bits_of(last.self)) = {}
    /\ \A c \in Objects :
          SetDots(canvases[c], bits_of(c)) = {} /\ canvases[c]._text = <<>> =>
              RendersBlank(c)

\* clear_all() has cleared a canvas that had dots set and has no text.
C9_Witness ==
    /\ last.op = "clear_all"
    /\ SetDots(canvases[last.self], pre_bits_of(last.self)) # {}
    /\ canvases[last.self]._text = <<>>

\* C10: for equal-size canvases A and B, each obtained from an empty canvas
\* by ADD-mode drawing, A | B equals, and renders as, the canvas obtained by
\* applying both sequences to one fresh canvas of that size, and
\* A | B == B | A.
C10_UnionEqualsBothDrawn ==
    \A c \in Objects, o \in Objects :
        SameSize(canvases[c], canvases[o]) /\ drawn[c].only_add /\ drawn[o].only_add =>
            LET cv == canvases[c]
                u == apply_operation("or_", bits_of(c), bits_of(o))
                v == apply_operation("or_", bits_of(o), bits_of(c))
                both == changes(cv, NewBits(cv.width, cv.height),
                                drawn[c].coords \o drawn[o].coords, 1)
            IN  /\ u.raised = ""
                /\ both.raised = ""
                /\ u.ba = both.ba
                /\ get_str(Canvas__init__(cv.width, cv.height, 0), u.ba)
                      = get_str(Canvas__init__(cv.width, cv.height, 0), both.ba)
                /\ v.raised = ""
                /\ u.ba = v.ba

\* Two canvases of one size have been drawn on in ADD mode and hold
\* different dots.
C10_Witness ==
    /\ Len(canvases) = 2
    /\ SameSize(canvases[1], canvases[2])
    /\ drawn[1].only_add
    /\ drawn[2].only_add
    /\ SetDots(canvases[1], bits_of(1)) # {}
    /\ SetDots(canvases[2], bits_of(2)) # {}
    /\ bits_of(1) # bits_of(2)

\* C11: canvas equality is reflexive and symmetric, and c1 == c2 holds
\* exactly when the two canvases have the same width and height and the
\* same set of set dots.
C11_EqualIffSameSizeAndDots ==
    \A c \in Objects, o \in Objects :
        /\ Canvas__eq__(c, c)
        /\ Canvas__eq__(c, o) <=> Canvas__eq__(o, c)
        /\ Canvas__eq__(c, o) <=>
                /\ SameSize(canvases[c], canvases[o])
                /\ SetDots(canvases[c], bits_of(c)) = SetDots(canvases[o], bits_of(o))

(***************************************************************************)
(* Text overlays: a canvas of whole cells with striped contents is given   *)
(* one text at any position in and around the grid, and rendered.          *)
(***************************************************************************)
MaxTextCols == 2

MaxTextRows == 3

MaxTexts == 1

TextSizes ==
    {<<BRAILLE_COLS * wc, BRAILLE_ROWS * hc>> : wc \in 1..MaxTextCols, hc \in 1..MaxTextRows}

\* A bitarray of n bits with every third bit set.
Striped(n) == [k \in 1..n |-> IF k % 3 = 0 THEN 1 ELSE 0]

\* "a", "ab", "abc", "a\nb", "ab\nc", "a\nb\nc"
OverlayTexts ==
    {<<97>>, <<97, 98>>, <<97, 98, 99>>, <<97, NEWLINE, 98>>, <<97, 98, NEWLINE, 99>>,
     <<97, NEWLINE, 98, NEWLINE, 99>>}

OverlayXs(cv) == (-4)..(cv.width + 3)

OverlayYs(cv) == (-7)..(cv.height + 3)

InitText ==
    \E size \in TextSizes :
        \E contents \in {Striped(size[1] * size[2])} :
            /\ canvases = <<Canvas__init__(size[1], size[2], 1)>>
            /\ heap = <<contents>>
            /\ last = NoCall
            /\ nops = 0
            /\ tables = Tables
            /\ video = NoVideo
            /\ drawn = <<Tainted>>

NextText ==
    \/ \E c \in Objects :
            \E x \in OverlayXs(canvases[c]), y \in OverlayYs(canvases[c]),
               text \in OverlayTexts, alignment \in TextAlign :
                /\ Len(canvases[c]._text) < MaxTexts
                /\ write_text(c, x, y, text, alignment)
    \/ \E c \in Objects : render(c)

SpecText == InitText /\ [][NextText]_vars

\* A text of at least one character and no line break.
SingleLine(text) == Len(text) >= 1 /\ \A k \in 1..Len(text) : text[k] # NEWLINE

\* The character column at which a text of n characters written at x starts.
StartColumn(x, n, alignment) ==
    CASE alignment = "left" -> x \div 2
      [] alignment = "center" -> (x - ((n * 2) \div 2)) \div 2
      [] alignment = "right" -> (x - n * 2) \div 2

\* The character row, from the top, of a text line written at y.
TextRow(y) == PyRound(y - 1, 4)

\* The rows of get_str of the canvas c had no text been written on it.
PlainRows(c) == Lines(get_str([canvases[c] EXCEPT !._text = <<>>], bits_of(c)).value)

\* rows with the part of txt that falls inside the grid put in the row
\* row (from 0) from the column col on.
WithText(rows, row, col, txt) ==
    [r \in 1..Len(rows) |->
        [k \in 1..Len(rows[r]) |->
            IF r = row + 1 /\ col < k /\ k <= col + Len(txt) THEN txt[k - col] ELSE rows[r][k]]]

\* C12: a single-line text of n characters whose target lies fully inside
\* the grid shows in the row round((y - 1) / 4) from the top, from the
\* column x // 2 (left), (x - n*2//2) // 2 (center), (x - n*2) // 2 (right)
\* on; those n characters are replaced and every other character of the
\* output is as it is without the text.
C12_SingleLineTextPlaced ==
    last.op = "get_str" /\ Len(canvases[last.self]._text) = 1 =>
        LET cv == canvases[last.self]
            ct == cv._text[1]
            n == Len(ct.text)
            row == TextRow(ct.y)
            col == StartColumn(ct.x, n, ct.alignment)
        IN  /\ SingleLine(ct.text)
            /\ 0 <= row /\ row < cv.height_chars
            /\ 0 <= col /\ col + n <= cv.width_chars
            => /\ last.raised = ""
               /\ Lines(last.value) = WithText(PlainRows(last.self), row, col, ct.text)

C12_Witness ==
    /\ last.op = "get_str" /\ last.raised = ""
    /\ Len(canvases[last.self]._text) = 1
    /\ LET cv == canvases[last.self]
           ct == cv._text[1]
       IN  /\ ct.text = <<97, 98>> /\ ct.alignment = "center"
           /\ TextRow(ct.y) = 2 /\ cv.height_chars = 3
           /\ StartColumn(ct.x, 2, "center") = 0 /\ cv.width_chars = 2
           /\ Lines(last.value)[3] = <<97, 98>>
           /\ Lines(last.value)[2] = PlainRows(last.self)[2]

\* C13: whatever text is pending, get_str completes without error and
\* returns height_chars rows of width_chars characters; a text line whose
\* row is outside [0, height_chars) changes no row, and of a text line that
\* starts before column 0 or ends past column width_chars only the part
\* inside the grid is written.
C13_OverlaysSkippedOrClipped ==
    last.op = "get_str" =>
        LET cv == canvases[last.self]
            rows == Lines(last.value)
        IN  /\ last.raised = ""
            /\ Len(rows) = cv.height_chars
            /\ \A r \in 1..Len(rows) : Len(rows[r]) = cv.width_chars
            /\ Len(cv._text) = 1 /\ SingleLine(cv._text[1].text) =>
                    LET ct == cv._text[1]
                        row == TextRow(ct.y)
                        col == StartColumn(ct.x, Len(ct.text), ct.alignment)
                    IN  rows = IF 0 <= row /\ row < cv.height_chars
                               THEN WithText(PlainRows(last.self), row, col, ct.text)
                               ELSE PlainRows(last.self)

\* C14: a text with line breaks is rendered one line per character row:
\* line i shows exactly i rows below line 0, at the same x and alignment,
\* so no two lines of one text share a row.
C14_LinesOnSuccessiveRows ==
    last.op = "get_str" /\ last.raised = "" /\ Len(canvases[last.self]._text) = 1 =>
        LET cv == canvases[last.self]
            ct == cv._text[1]
            ls == splitlines(ct.text)
            rows == Lines(last.value)
        IN  \A i \in 0..(Len(ls) - 1) :
                LET row == TextRow(ct.y) + i
                    col == StartColumn(ct.x, Len(ls[i + 1]), ct.alignment)
                IN  /\ 0 <= TextRow(ct.y) /\ row < cv.height_chars
                    /\ 0 <= col /\ col + Len(ls[i + 1]) <= cv.width_chars
                    => /\ Len(rows) = cv.height_chars
                       /\ Len(rows[row + 1]) = cv.width_chars
                       /\ \A k \in 1..Len(ls[i + 1]) : rows[row + 1][col + k] = ls[i + 1][k]

(***************************************************************************)
(* base.py: coords_to_braille, and sparklines.py                           *)
(***************************************************************************)
None == <<>>

RECURSIVE coords_to_braille_from(_, _, _)
\* The loop of coords_to_braille over the rest of its arguments; chr(result)
\* is a str of one character.
coords_to_braille_from(mapping, coords, result) ==
    IF coords = <<>> THEN [raised |-> "", value |-> <<result>>]
    ELSE IF Head(coords) \notin DOMAIN mapping THEN [raised |-> "ValueError", value |-> <<>>]
    ELSE coords_to_braille_from(mapping, Tail(coords), BitOr(result, mapping[Head(coords)]))

\* coords_to_braille(*coords), the dict coords_braille_mapping being mapping
coords_to_braille(mapping, coords) ==
    coords_to_braille_from(mapping, coords, BRAILLE_RANGE_START)

\* The table of the package that sparklines.py indexes by the byte of a
\* cell: the character of the cell with that byte.
braille_table_str(i) == BRAILLE_RANGE_START + i

\* "\u2800" * n
blanks(n) == [k \in 1..n |-> braille_table_str(0)]

\* data[start::2]
every_other(data, start) ==
    [k \in 1..((Len(data) - start + 1) \div 2) |-> data[start + 2 * (k - 1) + 1]]

\* The dict after mapping.setdefault(key, 0) for each key of keys
setdefault_each(mapping, keys) ==
    [k \in DOMAIN mapping \cup {keys[i] : i \in 1..Len(keys)} |->
        IF k \in DOMAIN mapping THEN mapping[k] ELSE 0]

\* What mapping.setdefault(key, 0) returns
setdefault_value(mapping, key) == IF key \in DOMAIN mapping THEN mapping[key] ELSE 0

\* sparkline_non_normalized from the test of width on; data is a list or
\* a tuple.
sparkline_columns(tbls, data0, width, filled) ==
    IF width # None /\ width[1] < 1 THEN [raised |-> "ValueError", value |-> <<>>, tables |-> tbls]
    ELSE
    LET data == IF width # None /\ Len(data0) \div 2 > width[1]
                THEN PySliceFrom(data0, -width[1] * 2)
                ELSE data0
        name == IF filled THEN "coords_braille_mapping_filled" ELSE "coords_braille_mapping"
        lefts == every_other(data, 0)
        rights == every_other(data, 1)
        left_keys == [k \in 1..Len(lefts) |-> <<0, lefts[k] - 1>>]
        right_keys == [k \in 1..Len(rights) |-> <<1, rights[k] - 1>>]
        evens == [k \in 1..Len(lefts) |-> setdefault_value(tbls[name], left_keys[k])]
        odds == [k \in 1..Len(rights) |-> setdefault_value(tbls[name], right_keys[k])]
        chars == [k \in 1..Max(Len(evens), Len(odds)) |->
                    braille_table_str(BitOr(IF k <= Len(evens) THEN evens[k] ELSE 0,
                                            IF k <= Len(odds) THEN odds[k] ELSE 0))]
    IN  [raised |-> "",
         value |-> IF width # None /\ Len(chars) < width[1]
                   THEN chars \o blanks(width[1] - Len(chars))
                   ELSE chars,
         tables |-> [tbls EXCEPT ![name] = setdefault_each(@, left_keys \o right_keys)]]

\* sparkline_non_normalized(data, width, filled) for a list data
sparkline_non_normalized(tbls, data, width, filled) ==
    IF data = <<>>
    THEN [raised |-> "", value |-> IF width # None THEN blanks(width[1]) ELSE <<>>,
          tables |-> tbls]
    ELSE sparkline_columns(tbls, data, width, filled)

Roundings == {"round", "ceil", "floor"}

\* math.floor whatever the rounding asked for
round_func_floor(rounding, num, den) == num \div den

\* round_func(num / den) for den > 0
round_func(rounding, num, den) ==
    CASE rounding = "round" -> PyRound(num, den)
      [] rounding = "ceil" -> -((-num) \div den)
      [] rounding = "floor" -> num \div den

SeqMin(data) == CHOOSE m \in {data[k] : k \in 1..Len(data)} : \A k \in 1..Len(data) : m <= data[k]

SeqMax(data) == CHOOSE m \in {data[k] : k \in 1..Len(data)} : \A k \in 1..Len(data) : m >= data[k]

\* sparkline(data, width, filled, min_val, max_val, log_scale=False,
\* base_level, rounding) for a list data of integers.  The generator that
\* sparkline_non_normalized is given is never empty for it and is read
\* into a tuple of min(d, 4).
sparkline(tbls, data, width, filled, min_val, max_val, base_level, rounding) ==
    IF data = <<>>
    THEN [raised |-> "", value |-> IF width # None THEN blanks(width[1]) ELSE <<>>,
          tables |-> tbls]
    ELSE
    LET _min_val == IF min_val = None THEN SeqMin(data) ELSE min_val[1]
        _max_val == IF max_val = None THEN SeqMax(data) ELSE max_val[1]
        data_range == _max_val - _min_val
        sign == IF data_range < 0 THEN -1 ELSE 1
        scaled(d) == IF base_level = 0 THEN 4 * (d - _min_val)
                     ELSE 3 * (d - _min_val) + data_range
        rounded == [k \in 1..Len(data) |->
                        Min(round_func(rounding, sign * scaled(data[k]), sign * data_range), 4)]
    IN  IF rounding \notin Roundings
        THEN [raised |-> "ValueError", value |-> <<>>, tables |-> tbls]
        ELSE IF data_range = 0
        THEN [raised |-> "",
              value |-> IF width # None THEN blanks(Min(width[1], Len(data)))
                        ELSE blanks(Len(data)),
              tables |-> tbls]
        ELSE IF base_level \notin {0, 1}
        THEN [raised |-> "ValueError", value |-> <<>>, tables |-> tbls]
        ELSE sparkline_columns(tbls, rounded, width, filled)

(***************************************************************************)
(* Calls of the codec and of the sparklines, on the tables as they are,    *)
(* next to operations on a canvas.                                         *)
(***************************************************************************)
MaxData == 3

InvalidCoords == {<<0, -2>>, <<0, 4>>, <<2, 3>>, <<-1, 0>>, <<-2, 0>>}

RealPositions == {0, 1} \X {0, 1, 2, 3}

RECURSIVE Enumerated(_)
\* The elements of the set S as arguments, in some order.
Enumerated(S) ==
    IF S = {} THEN <<>>
    ELSE LET e == CHOOSE e \in S : TRUE IN <<e>> \o Enumerated(S \ {e})

\* The arguments of coords_to_braille: up to MaxCoords coordinates, real
\* ones, placeholders and invalid ones, in any order and with repetition;
\* one invalid coordinate; and each set of real positions.
CoordArgs ==
    UNION {[1..n -> {<<0, 0>>, <<1, 3>>, <<0, -1>>, <<1, -1>>, <<0, -2>>, <<2, 3>>}] :
              n \in 0..MaxCoords}
        \cup {<<coord>> : coord \in InvalidCoords}
        \cup {Enumerated(S) : S \in SUBSET RealPositions}

DataValues == {0, 3, 5}

DataLists == UNION {[1..n -> DataValues] : n \in 0..MaxData}

Widths == {None, <<0>>, <<2>>}

SparklineData == UNION {[1..n -> {0, 1, 5}] : n \in 0..(MaxData - 1)}

MinVals == {None, <<0>>, <<2>>}

MaxVals == {None, <<2>>}

InitCodec ==
    /\ canvases = <<Canvas__init__(BRAILLE_COLS, BRAILLE_ROWS, 1)>>
    /\ heap = <<NewBits(BRAILLE_COLS, BRAILLE_ROWS)>>
    /\ last = NoCall
    /\ nops = 0
    /\ tables = Tables
    /\ video = NoVideo
    /\ drawn = <<Undrawn>>

call_coords_to_braille(coords) ==
    LET r == coords_to_braille(tables.coords_braille_mapping, coords)
    IN  /\ Step
        /\ last' = [Called("coords_to_braille", 0) EXCEPT !.coords = coords,
                        !.raised = r.raised, !.value = r.value]
        /\ UNCHANGED <<canvases, heap, drawn, tables, video>>

call_sparkline_non_normalized(data, width, filled) ==
    LET r == sparkline_non_normalized(tables, data, width, filled)
    IN  /\ Step
        /\ tables' = r.tables
        /\ UNCHANGED video
        /\ last' = [Called("sparkline_non_normalized", 0) EXCEPT !.data = data,
                        !.width = width, !.filled = filled,
                        !.raised = r.raised, !.value = r.value]
        /\ UNCHANGED <<canvases, heap, drawn>>

call_sparkline(data, width, filled, min_val, max_val, base_level, rounding) ==
    LET r == sparkline(tables, data, width, filled, min_val, max_val, base_level, rounding)
    IN  /\ Step
        /\ tables' = r.tables
        /\ UNCHANGED video
        /\ last' = [Called("sparkline", 0) EXCEPT !.data = data,
                        !.width = width, !.filled = filled, !.min_val = min_val,
                        !.max_val = max_val, !.base_level = base_level, !.rounding = rounding,
                        !.raised = r.raised, !.value = r.value]
        /\ UNCHANGED <<canvases, heap, drawn>>

NextCodec ==
    \/ \E coords \in CoordArgs : call_coords_to_braille(coords)
    \/ \E data \in DataLists, width \in Widths, filled \in BOOLEAN :
            call_sparkline_non_normalized(data, width, filled)
    \/ \E data \in SparklineData, filled \in BOOLEAN, min_val \in MinVals, max_val \in MaxVals,
          base_level \in {0, 1} :
            call_sparkline(data, None, filled, min_val, max_val, base_level, "ceil")
    \/ \E c \in Objects, x \in {0, 1}, y \in {0, 3} : set_cell(c, x, y)
    \/ \E c \in Objects : render(c)

SpecCodec == InitCodec /\ [][NextCodec]_vars

\* The bit of a cell byte that stands for the dot at column p[1] and row
\* p[2] (rows counted upwards): bits 0, 1, 2, 6 down the left column and
\* bits 3, 4, 5, 7 down the right one.
DotBit(p) == IF p[1] = 0 THEN <<6, 2, 1, 0>>[p[2] + 1] ELSE <<7, 5, 4, 3>>[p[2] + 1]

RECURSIVE SumOfBits(_)
\* The byte with exactly the bits of the set bs set.
SumOfBits(bs) ==
    IF bs = {} THEN 0
    ELSE LET b == CHOOSE b \in bs : TRUE IN 2 ^ b + SumOfBits(bs \ {b})

Args == {last.coords[k] : k \in 1..Len(last.coords)}

\* C15: over valid coordinates coords_to_braille returns the character
\* 0x2800 + the byte with the bits of its real positions set, whatever the
\* order and the repetition of the arguments; the placeholders (0, -1) and
\* (1, -1) add no bit and do not fail; the sets of real positions give 256
\* different characters, U+2800 to U+28FF.
C15_CoordsToBraille ==
    last.op = "coords_to_braille" /\ Args \subseteq coords_braille_mapping_keys =>
        /\ last.raised = ""
        /\ last.value =
                <<BRAILLE_RANGE_START + SumOfBits({DotBit(p) : p \in Args \cap RealPositions})>>
        /\ {coords_to_braille(tables.coords_braille_mapping, Enumerated(S)).value :
                S \in SUBSET RealPositions}
              = {<<BRAILLE_RANGE_START + n>> : n \in 0..255}

C15_Witness ==
    /\ last.op = "coords_to_braille" /\ last.raised = ""
    /\ last.coords = << <<1, 3>>, <<0, -1>> >>
    /\ last.value = <<BRAILLE_RANGE_START + 8>>

\* C16: coords_to_braille raises KeyError and returns no character
\* whenever one of its arguments is not a valid cell coordinate, wherever
\* that argument stands and whatever valid coordinates come with it.
C16_InvalidCoordKeyError ==
    last.op = "coords_to_braille" /\ ~(Args \subseteq coords_braille_mapping_keys) =>
        /\ last.raised = "KeyError"
        /\ last.value = <<>>

\* C17: the two lookup tables are never modified: after any calls each
\* holds its initial 10 keys with their initial values.
C17_TablesNeverModified == tables = Tables

(***************************************************************************)
(* canvas.py: the shapes.  A generator is the record of the points it      *)
(* yields and of the error that ends it; all errors modelled here are      *)
(* raised before the first point is yielded.  Arcs are drawn in steps of   *)
(* 30, 45 or 90 degrees.                                                   *)
(***************************************************************************)
Abs(n) == IF n < 0 THEN -n ELSE n

Yields(points) == [iterable |-> TRUE, raised |-> "", points |-> points]

Raises(error) == [iterable |-> TRUE, raised |-> error, points |-> <<>>]

\* The <<start, delta, steps, i>>, for start and start + delta in -2..9 and
\* steps up to 11, for which start + i * delta / steps lies half-way
\* between two integers while the double that i additions of the double
\* delta / steps to float(start) give does not, so that round() of it is
\* the neighbour that rounding half to even does not give.  Lines of fewer
\* than 6 steps have none, from -4 on as well.
inexact_ties ==
    {
     <<-2, 1, 6, 3>>, <<-2, 1, 10, 5>>, <<-2, 5, 6, 3>>, <<-2, 7, 10, 5>>,
     <<-1, 1, 6, 3>>, <<-1, 1, 10, 5>>, <<1, -1, 6, 3>>, <<1, -1, 10, 5>>,
     <<2, -1, 6, 3>>, <<2, -1, 10, 5>>, <<2, 1, 10, 5>>, <<2, 3, 10, 5>>,
     <<3, -1, 6, 3>>, <<3, 1, 6, 3>>, <<4, -5, 6, 3>>, <<4, -3, 10, 5>>,
     <<4, -1, 10, 5>>, <<4, 1, 6, 3>>, <<4, 3, 10, 5>>, <<5, -7, 10, 5>>,
     <<5, -1, 10, 5>>, <<5, 1, 10, 5>>, <<6, -3, 10, 5>>, <<6, -1, 6, 3>>,
     <<6, 1, 6, 3>>, <<6, 3, 10, 5>>, <<7, -7, 10, 5>>, <<7, -5, 6, 3>>,
     <<7, -1, 10, 5>>, <<7, 1, 10, 5>>, <<8, -9, 10, 5>>, <<8, -3, 10, 5>>,
     <<8, -1, 6, 3>>, <<9, -3, 10, 5>>, <<9, -1, 6, 3>>, <<9, -1, 10, 5>>
    }

\* round(x) at the i-th step of _draw_line, x having started at float(start)
\* and been incremented i times by delta / steps.
line_coordinate(start, delta, steps, i) ==
    LET n == start * steps + i * delta
    IN  IF <<start, delta, steps, i>> \in inexact_ties
        THEN 2 * (n \div steps) + 1 - PyRound(n, steps)
        ELSE PyRound(n, steps)

_draw_line(start_x, start_y, end_x, end_y, dotting) ==
    LET dx == end_x - start_x
        dy == end_y - start_y
        steps == IF Abs(dx) > Abs(dy) THEN Abs(dx) ELSE Abs(dy)
    IN  IF steps = 0 THEN Yields(<<>>)
        ELSE IF dotting = 0 THEN Raises("ZeroDivisionError")
        ELSE Yields([k \in 1..((steps + Abs(dotting) - 1) \div Abs(dotting)) |->
                        <<line_coordinate(start_x, dx, steps, Abs(dotting) * (k - 1)),
                          line_coordinate(start_y, dy, steps, Abs(dotting) * (k - 1))>>])

\* int(math.cos(i * angle_step + rotation) * radius) and the same of
\* math.sin, in double arithmetic, for rotation = 0: the offsets of the
\* vertices from the centre, for sides in 1..4 (rows) and radius in -1..3.
polygon_offsets ==
    <<
       <<<<<<0, -1>>>>,
         <<<<0, 0>>>>,
         <<<<0, 1>>>>,
         <<<<0, 2>>>>,
         <<<<0, 3>>>>>>,
       <<<<<<1, 0>>, <<-1, 0>>>>,
         <<<<0, 0>>, <<0, 0>>>>,
         <<<<-1, 0>>, <<1, 0>>>>,
         <<<<-2, 0>>, <<2, 0>>>>,
         <<<<-3, 0>>, <<3, 0>>>>>>,
       <<<<<<0, 0>>, <<0, 0>>, <<0, -1>>>>,
         <<<<0, 0>>, <<0, 0>>, <<0, 0>>>>,
         <<<<0, 0>>, <<0, 0>>, <<0, 1>>>>,
         <<<<-1, 0>>, <<1, -1>>, <<0, 2>>>>,
         <<<<-2, -1>>, <<2, -1>>, <<0, 3>>>>>>,
       <<<<<<0, 0>>, <<0, 0>>, <<0, 0>>, <<0, 0>>>>,
         <<<<0, 0>>, <<0, 0>>, <<0, 0>>, <<0, 0>>>>,
         <<<<0, 0>>, <<0, 0>>, <<0, 0>>, <<0, 0>>>>,
         <<<<-1, -1>>, <<1, -1>>, <<1, 1>>, <<-1, 1>>>>,
         <<<<-2, -2>>, <<2, -2>>, <<2, 2>>, <<-2, 2>>>>>>
    >>

\* round(math.cos(angle) * radius) and round(math.sin(angle) * radius), in
\* double arithmetic, for the angles of count(0, radians(angle_step)) that
\* are at most radians(360), for radius in -1..3 and angle_step 30, 45 or
\* 90 degrees.
arc_offsets(radius, angle_step) ==
    CASE radius = -1 /\ angle_step = 30 ->
           <<
             <<-1, 0>>, <<-1, 0>>, <<-1, -1>>, <<0, -1>>, <<0, -1>>, <<1, -1>>,
             <<1, 0>>, <<1, 0>>, <<1, 1>>, <<0, 1>>, <<-1, 1>>, <<-1, 0>>
           >>
      [] radius = -1 /\ angle_step = 45 ->
           <<
             <<-1, 0>>, <<-1, -1>>, <<0, -1>>, <<1, -1>>, <<1, 0>>, <<1, 1>>, <<0, 1>>,
             <<-1, 1>>, <<-1, 0>>
           >>
      [] radius = -1 /\ angle_step = 90 ->
           <<
             <<-1, 0>>, <<0, -1>>, <<1, 0>>, <<0, 1>>, <<-1, 0>>
           >>
      [] radius = 0 /\ angle_step = 30 ->
           <<
             <<0, 0>>, <<0, 0>>, <<0, 0>>, <<0, 0>>, <<0, 0>>, <<0, 0>>, <<0, 0>>,
             <<0, 0>>, <<0, 0>>, <<0, 0>>, <<0, 0>>, <<0, 0>>
           >>
      [] radius = 0 /\ angle_step = 45 ->
           <<
             <<0, 0>>, <<0, 0>>, <<0, 0>>, <<0, 0>>, <<0, 0>>, <<0, 0>>, <<0, 0>>,
             <<0, 0>>, <<0, 0>>
           >>
      [] radius = 0 /\ angle_step = 90 ->
           <<
             <<0, 0>>, <<0, 0>>, <<0, 0>>, <<0, 0>>, <<0, 0>>
           >>
      [] radius = 1 /\ angle_step = 30 ->
           <<
             <<1, 0>>, <<1, 0>>, <<1, 1>>, <<0, 1>>, <<0, 1>>, <<-1, 1>>, <<-1, 0>>,
             <<-1, 0>>, <<-1, -1>>, <<0, -1>>, <<1, -1>>, <<1, 0>>
           >>
      [] radius = 1 /\ angle_step = 45 ->
           <<
             <<1, 0>>, <<1, 1>>, <<0, 1>>, <<-1, 1>>, <<-1, 0>>, <<-1, -1>>, <<0, -1>>,
             <<1, -1>>, <<1, 0>>
           >>
      [] radius = 1 /\ angle_step = 90 ->
           <<
             <<1, 0>>, <<0, 1>>, <<-1, 0>>, <<0, -1>>, <<1, 0>>
           >>
      [] radius = 2 /\ angle_step = 30 ->
           <<
             <<2, 0>>, <<2, 1>>, <<1, 2>>, <<0, 2>>, <<-1, 2>>, <<-2, 1>>, <<-2, 0>>,
             <<-2, -1>>, <<-1, -2>>, <<0, -2>>, <<1, -2>>, <<2, -1>>
           >>
      [] radius = 2 /\ angle_step = 45 ->
           <<
             <<2, 0>>, <<1, 1>>, <<0, 2>>, <<-1, 1>>, <<-2, 0>>, <<-1, -1>>, <<0, -2>>,
             <<1, -1>>, <<2, 0>>
           >>
      [] radius = 2 /\ angle_step = 90 ->
           <<
             <<2, 0>>, <<0, 2>>, <<-2, 0>>, <<0, -2>>, <<2, 0>>
           >>
      [] radius = 3 /\ angle_step = 30 ->
           <<
             <<3, 0>>, <<3, 1>>, <<2, 3>>, <<0, 3>>, <<-1, 3>>, <<-3, 2>>, <<-3, 0>>,
             <<-3, -1>>, <<-2, -3>>, <<0, -3>>, <<2, -3>>, <<3, -1>>
           >>
      [] radius = 3 /\ angle_step = 45 ->
           <<
             <<3, 0>>, <<2, 2>>, <<0, 3>>, <<-2, 2>>, <<-3, 0>>, <<-2, -2>>, <<0, -3>>,
             <<2, -2>>, <<3, 0>>
           >>
      [] radius = 3 /\ angle_step = 90 ->
           <<
             <<3, 0>>, <<0, 3>>, <<-3, 0>>, <<0, -3>>, <<3, 0>>
           >>
\* The same for the angles of count(radians(start_angle), radians(angle_step))
\* that are at most radians(end_angle): none when start_angle > end_angle,
\* and otherwise the arcs from 0 to 90, 0 to 180, 90 to 270 and 0 to 360
\* degrees.
arc_offsets_between(radius, start_angle, end_angle, angle_step) ==
    CASE start_angle > end_angle -> <<>>
      [] start_angle = 0 /\ end_angle = 360 -> arc_offsets(radius, angle_step)
      [] radius = -1 /\ start_angle = 0 /\ end_angle = 90 /\ angle_step = 30 ->
           <<
             <<-1, 0>>, <<-1, 0>>, <<-1, -1>>, <<0, -1>>
           >>
      [] radius = -1 /\ start_angle = 0 /\ end_angle = 90 /\ angle_step = 45 ->
           <<
             <<-1, 0>>, <<-1, -1>>, <<0, -1>>
           >>
      [] radius = -1 /\ start_angle = 0 /\ end_angle = 90 /\ angle_step = 90 ->
           <<
             <<-1, 0>>, <<0, -1>>
           >>
      [] radius = 0 /\ start_angle = 0 /\ end_angle = 90 /\ angle_step = 30 ->
           <<
             <<0, 0>>, <<0, 0>>, <<0, 0>>, <<0, 0>>
           >>
      [] radius = 0 /\ start_angle = 0 /\ end_angle = 90 /\ angle_step = 45 ->
           <<
             <<0, 0>>, <<0, 0>>, <<0, 0>>
           >>
      [] radius = 0 /\ start_angle = 0 /\ end_angle = 90 /\ angle_step = 90 ->
           <<
             <<0, 0>>, <<0, 0>>
           >>
      [] radius = 1 /\ start_angle = 0 /\ end_angle = 90 /\ angle_step = 30 ->
           <<
             <<1, 0>>, <<1, 0>>, <<1, 1>>, <<0, 1>>
           >>
      [] radius = 1 /\ start_angle = 0 /\ end_angle = 90 /\ angle_step = 45 ->
           <<
             <<1, 0>>, <<1, 1>>, <<0, 1>>
           >>
      [] radius = 1 /\ start_angle = 0 /\ end_angle = 90 /\ angle_step = 90 ->
           <<
             <<1, 0>>, <<0, 1>>
           >>
      [] radius = 2 /\ start_angle = 0 /\ end_angle = 90 /\ angle_step = 30 ->
           <<
             <<2, 0>>, <<2, 1>>, <<1, 2>>, <<0, 2>>
           >>
      [] radius = 2 /\ start_angle = 0 /\ end_angle = 90 /\ angle_step = 45 ->
           <<
             <<2, 0>>, <<1, 1>>, <<0, 2>>
           >>
      [] radius = 2 /\ start_angle = 0 /\ end_angle = 90 /\ angle_step = 90 ->
           <<
             <<2, 0>>, <<0, 2>>
           >>
      [] radius = 3 /\ start_angle = 0 /\ end_angle = 90 /\ angle_step = 30 ->
           <<
             <<3, 0>>, <<3, 1>>, <<2, 3>>, <<0, 3>>
           >>
      [] radius = 3 /\ start_angle = 0 /\ end_angle = 90 /\ angle_step = 45 ->
           <<
             <<3, 0>>, <<2, 2>>, <<0, 3>>
           >>
      [] radius = 3 /\ start_angle = 0 /\ end_angle = 90 /\ angle_step = 90 ->
           <<
             <<3, 0>>, <<0, 3>>
           >>
      [] radius = -1 /\ start_angle = 0 /\ end_angle = 180 /\ angle_step = 30 ->
           <<
             <<-1, 0>>, <<-1, 0>>, <<-1, -1>>, <<0, -1>>, <<0, -1>>, <<1, -1>>,
             <<1, 0>>
           >>
      [] radius = -1 /\ start_angle = 0 /\ end_angle = 180 /\ angle_step = 45 ->
           <<
             <<-1, 0>>, <<-1, -1>>, <<0, -1>>, <<1, -1>>, <<1, 0>>
           >>
      [] radius = -1 /\ start_angle = 0 /\ end_angle = 180 /\ angle_step = 90 ->
           <<
             <<-1, 0>>, <<0, -1>>, <<1, 0>>
           >>
      [] radius = 0 /\ start_angle = 0 /\ end_angle = 180 /\ angle_step = 30 ->
           <<
             <<0, 0>>, <<0, 0>>, <<0, 0>>, <<0, 0>>, <<0, 0>>, <<0, 0>>, <<0, 0>>
           >>
      [] radius = 0 /\ start_angle = 0 /\ end_angle = 180 /\ angle_step = 45 ->
           <<
             <<0, 0>>, <<0, 0>>, <<0, 0>>, <<0, 0>>, <<0, 0>>
           >>
      [] radius = 0 /\ start_angle = 0 /\ end_angle = 180 /\ angle_step = 90 ->
           <<
             <<0, 0>>, <<0, 0>>, <<0, 0>>
           >>
      [] radius = 1 /\ start_angle = 0 /\ end_angle = 180 /\ angle_step = 30 ->
           <<
             <<1, 0>>, <<1, 0>>, <<1, 1>>, <<0, 1>>, <<0, 1>>, <<-1, 1>>, <<-1, 0>>
           >>
      [] radius = 1 /\ start_angle = 0 /\ end_angle = 180 /\ angle_step = 45 ->
           <<
             <<1, 0>>, <<1, 1>>, <<0, 1>>, <<-1, 1>>, <<-1, 0>>
           >>
      [] radius = 1 /\ start_angle = 0 /\ end_angle = 180 /\ angle_step = 90 ->
           <<
             <<1, 0>>, <<0, 1>>, <<-1, 0>>
           >>
      [] radius = 2 /\ start_angle = 0 /\ end_angle = 180 /\ angle_step = 30 ->
           <<
             <<2, 0>>, <<2, 1>>, <<1, 2>>, <<0, 2>>, <<-1, 2>>, <<-2, 1>>, <<-2, 0>>
           >>
      [] radius = 2 /\ start_angle = 0 /\ end_angle = 180 /\ angle_step = 45 ->
           <<
             <<2, 0>>, <<1, 1>>, <<0, 2>>, <<-1, 1>>, <<-2, 0>>
           >>
      [] radius = 2 /\ start_angle = 0 /\ end_angle = 180 /\ angle_step = 90 ->
           <<
             <<2, 0>>, <<0, 2>>, <<-2, 0>>
           >>
      [] radius = 3 /\ start_angle = 0 /\ end_angle = 180 /\ angle_step = 30 ->
           <<
             <<3, 0>>, <<3, 1>>, <<2, 3>>, <<0, 3>>, <<-1, 3>>, <<-3, 2>>, <<-3, 0>>
           >>
      [] radius = 3 /\ start_angle = 0 /\ end_angle = 180 /\ angle_step = 45 ->
           <<
             <<3, 0>>, <<2, 2>>, <<0, 3>>, <<-2, 2>>, <<-3, 0>>
           >>
      [] radius = 3 /\ start_angle = 0 /\ end_angle = 180 /\ angle_step = 90 ->
           <<
             <<3, 0>>, <<0, 3>>, <<-3, 0>>
           >>
      [] radius = -1 /\ start_angle = 90 /\ end_angle = 270 /\ angle_step = 30 ->
           <<
             <<0, -1>>, <<0, -1>>, <<1, -1>>, <<1, 0>>, <<1, 0>>, <<1, 1>>, <<0, 1>>
           >>
      [] radius = -1 /\ start_angle = 90 /\ end_angle = 270 /\ angle_step = 45 ->
           <<
             <<0, -1>>, <<1, -1>>, <<1, 0>>, <<1, 1>>, <<0, 1>>
           >>
      [] radius = -1 /\ start_angle = 90 /\ end_angle = 270 /\ angle_step = 90 ->
           <<
             <<0, -1>>, <<1, 0>>, <<0, 1>>
           >>
      [] radius = 0 /\ start_angle = 90 /\ end_angle = 270 /\ angle_step = 30 ->
           <<
             <<0, 0>>, <<0, 0>>, <<0, 0>>, <<0, 0>>, <<0, 0>>, <<0, 0>>, <<0, 0>>
           >>
      [] radius = 0 /\ start_angle = 90 /\ end_angle = 270 /\ angle_step = 45 ->
           <<
             <<0, 0>>, <<0, 0>>, <<0, 0>>, <<0, 0>>, <<0, 0>>
           >>
      [] radius = 0 /\ start_angle = 90 /\ end_angle = 270 /\ angle_step = 90 ->
           <<
             <<0, 0>>, <<0, 0>>, <<0, 0>>
           >>
      [] radius = 1 /\ start_angle = 90 /\ end_angle = 270 /\ angle_step = 30 ->
           <<
             <<0, 1>>, <<0, 1>>, <<-1, 1>>, <<-1, 0>>, <<-1, 0>>, <<-1, -1>>,
             <<0, -1>>
           >>
      [] radius = 1 /\ start_angle = 90 /\ end_angle = 270 /\ angle_step = 45 ->
           <<
             <<0, 1>>, <<-1, 1>>, <<-1, 0>>, <<-1, -1>>, <<0, -1>>
           >>
      [] radius = 1 /\ start_angle = 90 /\ end_angle = 270 /\ angle_step = 90 ->
           <<
             <<0, 1>>, <<-1, 0>>, <<0, -1>>
           >>
      [] radius = 2 /\ start_angle = 90 /\ end_angle = 270 /\ angle_step = 30 ->
           <<
             <<0, 2>>, <<-1, 2>>, <<-2, 1>>, <<-2, 0>>, <<-2, -1>>, <<-1, -2>>,
             <<0, -2>>
           >>
      [] radius = 2 /\ start_angle = 90 /\ end_angle = 270 /\ angle_step = 45 ->
           <<
             <<0, 2>>, <<-1, 1>>, <<-2, 0>>, <<-1, -1>>, <<0, -2>>
           >>
      [] radius = 2 /\ start_angle = 90 /\ end_angle = 270 /\ angle_step = 90 ->
           <<
             <<0, 2>>, <<-2, 0>>, <<0, -2>>
           >>
      [] radius = 3 /\ start_angle = 90 /\ end_angle = 270 /\ angle_step = 30 ->
           <<
             <<0, 3>>, <<-1, 3>>, <<-3, 2>>, <<-3, 0>>, <<-3, -1>>, <<-2, -3>>,
             <<0, -3>>
           >>
      [] radius = 3 /\ start_angle = 90 /\ end_angle = 270 /\ angle_step = 45 ->
           <<
             <<0, 3>>, <<-2, 2>>, <<-3, 0>>, <<-2, -2>>, <<0, -3>>
           >>
      [] radius = 3 /\ start_angle = 90 /\ end_angle = 270 /\ angle_step = 90 ->
           <<
             <<0, 3>>, <<-3, 0>>, <<0, -3>>
           >>

\* _regular_polygon_vertices(center_x, center_y, radius, sides, rotation=0):
\* Fraction(360, 0) raises ZeroDivisionError, range(sides) is empty for
\* sides < 0.
_regular_polygon_vertices(center_x, center_y, radius, sides) ==
    IF sides = 0 THEN [raised |-> "ZeroDivisionError", coordinates |-> <<>>]
    ELSE IF sides < 0 THEN [raised |-> "", coordinates |-> <<>>]
    ELSE LET offsets == polygon_offsets[sides][radius + 2]
         IN  [raised |-> "",
              coordinates |-> [i \in 1..sides |->
                                 <<offsets[i][1] + center_x, offsets[i][2] + center_y>>]]

RECURSIVE first_ys(_, _)
\* The keys of min_max_x in the order of their insertion.
first_ys(outline, seen) ==
    IF outline = <<>> THEN <<>>
    ELSE IF Head(outline)[2] \in seen THEN first_ys(Tail(outline), seen)
    ELSE <<Head(outline)[2]>> \o first_ys(Tail(outline), seen \cup {Head(outline)[2]})

\* The fill with range(min_x, max_x) for each row.
_fill_convex_outline_short(outline) ==
    LET ys == first_ys(outline, {})
        xs(y) == {outline[j][1] : j \in {j \in 1..Len(outline) : outline[j][2] = y}}
        min_x(y) == CHOOSE m \in xs(y) : \A x \in xs(y) : m <= x
        max_x(y) == CHOOSE m \in xs(y) : \A x \in xs(y) : m >= x
    IN  chain([k \in 1..Len(ys) |->
                 [m \in 1..(max_x(ys[k]) - min_x(ys[k])) |-> <<min_x(ys[k]) + m - 1, ys[k]>>]])

_fill_convex_outline(outline) ==
    LET ys == first_ys(outline, {})
        xs(y) == {outline[j][1] : j \in {j \in 1..Len(outline) : outline[j][2] = y}}
        min_x(y) == CHOOSE m \in xs(y) : \A x \in xs(y) : m <= x
        max_x(y) == CHOOSE m \in xs(y) : \A x \in xs(y) : m >= x
    IN  chain([k \in 1..Len(ys) |->
                 [m \in 1..(max_x(ys[k]) - min_x(ys[k]) + 1) |-> <<min_x(ys[k]) + m - 1, ys[k]>>]])

\* The outline without the edge from the last vertex back to the first.
polygon_outline_open(vertices) ==
    chain([i \in 1..(Len(vertices) - 1) |->
             _draw_line(vertices[i][1], vertices[i][2], vertices[i + 1][1], vertices[i + 1][2],
                        1).points])

\* _draw_polygon(vertices, filled=False)
polygon_outline(vertices) ==
    chain([i \in 1..Len(vertices) |->
             LET start == vertices[i]
                 end == vertices[(i % Len(vertices)) + 1]
             IN  _draw_line(start[1], start[2], end[1], end[2], 1).points])

_draw_polygon(vertices, filled) ==
    IF filled THEN Yields(_fill_convex_outline(polygon_outline(vertices)))
    ELSE Yields(polygon_outline(vertices))

\* _pizza_slice of _draw_arc over the points it of the arc: next(it) on an
\* arc of no points raises StopIteration inside the generator, which
\* Python turns into RuntimeError.
_pizza_slice(x, y, it) ==
    IF it = <<>> THEN Raises("RuntimeError")
    ELSE LET first == it[1]
             prev_point == it[Len(it)]
         IN  Yields(_draw_line(x, y, first[1], first[2], 1).points
                    \o Tail(it)
                    \o _draw_line(prev_point[1], prev_point[2], x, y, 1).points)

\* _draw_arc(x, y, radius, filled, start_angle, end_angle, angle_step)
_draw_arc(x, y, radius, filled, start_angle, end_angle, angle_step) ==
    LET offsets == arc_offsets_between(radius, start_angle, end_angle,
                                       IF angle_step = None THEN 2 ELSE angle_step[1])
        it == [k \in 1..Len(offsets) |-> <<x + offsets[k][1], y + offsets[k][2]>>]
    IN  IF ~filled THEN Yields(it)
        ELSE IF start_angle % 360 # end_angle % 360 THEN _pizza_slice(x, y, it)
        ELSE Yields(_fill_convex_outline(it))

\* _draw_rectangle has neither a yield nor a return: whatever the pivot and
\* the anchor, it returns None, which is not iterable.
_draw_rectangle(x, y, width, height, filled, rotation) ==
    [iterable |-> FALSE, raised |-> "", points |-> <<>>]

\* int(size * math.cos(math.radians(angle))) and the same of math.sin, in
\* double arithmetic, for an arrow of size 5 at 0 or 90 degrees.
arrow_polar_offset(angle, size) ==
    CASE angle = 0 /\ size = 5 -> <<5, 0>>
      [] angle = 90 /\ size = 5 -> <<0, 5>>

\* The end point of _draw_arrow: end_or_angle is <<angle>> or <<x, y>>.
arrow_end(start, end_or_angle, size) ==
    IF Len(end_or_angle) = 1
    THEN <<start[1] + arrow_polar_offset(end_or_angle[1], size)[1],
           start[2] + arrow_polar_offset(end_or_angle[1], size)[2]>>
    ELSE end_or_angle

\* int(size * 0.4 * math.cos(math.radians(angle + 140))) and the same of
\* math.sin, then the same for angle - 140, in double arithmetic, for an
\* arrow of size 5 whose angle is 0 or 90 degrees or
\* math.degrees(math.atan2(dy, dx)) for the end point start + <<dx, dy>>,
\* <<dx, dy>> being <<3, 1>> or <<1, 3>>.
arrow_head_offsets(start, end_or_angle, size) ==
    CASE Len(end_or_angle) = 1 /\ end_or_angle[1] = 0 /\ size = 5 ->
           <<<<-1, 1>>, <<-1, -1>>>>
      [] Len(end_or_angle) = 1 /\ end_or_angle[1] = 90 /\ size = 5 ->
           <<<<-1, -1>>, <<1, -1>>>>
      [] Len(end_or_angle) = 2 /\ size = 5
           /\ <<end_or_angle[1] - start[1], end_or_angle[2] - start[2]>> = <<3, 1>> ->
           <<<<-1, 0>>, <<-1, -1>>>>
      [] Len(end_or_angle) = 2 /\ size = 5
           /\ <<end_or_angle[1] - start[1], end_or_angle[2] - start[2]>> = <<1, 3>> ->
           <<<<-1, -1>>, <<0, -1>>>>

\* _draw_arrow(start, end_or_angle, size): once end and angle are computed,
\* the first statement is yield from _draw_line(start, end), a call of
\* _draw_line with two of its four required arguments, which raises
\* TypeError before any point is yielded.
_draw_arrow(start, end_or_angle, size) ==
    LET end == arrow_end(start, end_or_angle, size)
    IN  IF Len(<<start, end>>) < 4 THEN Raises("TypeError")
        ELSE Yields(<<>>)

(***************************************************************************)
(* The drawing methods on one canvas that is blank or has every dot set.   *)
(***************************************************************************)
MaxDraws == 1

ShapeSizes == {<<4, 4>>, <<6, 8>>}

LineXs == {-1, 0, 2, 5}

LineYs == {-1, 0, 3, 7}

Dottings == {0, 1, 2}

CenterXs == {0, 2}

CenterYs == {1, 3}

SideCounts == (-1)..4

PolygonRadii == {0, 2, 3}

ArcRadii == (-1)..3

AngleSteps == {<<30>>, <<45>>, <<90>>}

\* <<start_angle, end_angle>>
ArcAngles == {<<0, 360>>, <<0, 90>>, <<0, 180>>, <<90, 270>>, <<90, 0>>}

RectangleWidths == {0, 2, 4}

ArrowStarts == {<<0, 0>>, <<1, 1>>}

\* end_or_angle: an angle in degrees or an end point.
ArrowTargets(start) ==
    {<<0>>, <<90>>, <<start[1] + 3, start[2] + 1>>, <<start[1] + 1, start[2] + 3>>}

ArrowSizes == {5}

RectangleHeights == {0, 2}

InitShapes ==
    \E size \in ShapeSizes : \E val \in {0, 1} :
        /\ canvases = <<Canvas__init__(size[1], size[2], 1)>>
        /\ heap = <<setall(NewBits(size[1], size[2]), val)>>
        /\ last = NoCall
        /\ nops = 0
        /\ tables = Tables
        /\ video = NoVideo
        /\ drawn = <<Tainted>>

\* return self.with_changes(gen, mode) at the end of the method op, whose
\* own code has raised early before the call, if anything.
draw(op, c, args, filled, mode, early, gen) ==
    LET cv == canvases[c]
        entered == early = "" /\ mode \in {"add", "clear"} /\ gen.iterable
        r == changes(cv, heap[cv._canvas], gen.points, IF mode = "add" THEN 1 ELSE 0)
        raised == IF early # "" THEN early
                  ELSE IF mode \notin {"add", "clear"} THEN "ValueError"
                  ELSE IF ~gen.iterable THEN "TypeError"
                  ELSE IF r.raised # "" THEN r.raised
                  ELSE gen.raised
    IN  /\ nops < MaxDraws
        /\ nops' = nops + 1
        /\ heap' = IF entered THEN [heap EXCEPT ![cv._canvas] = r.ba] ELSE heap
        /\ last' = [Called(op, c) EXCEPT !.args = args, !.filled = filled, !.mode = mode,
                        !.coords = IF entered THEN gen.points ELSE <<>>,
                        !.raised = raised, !.ret = IF raised = "" THEN c ELSE 0]
        /\ drawn' = [drawn EXCEPT ![c] = Tainted]
        /\ UNCHANGED <<canvases, tables, video>>

draw_line(c, start_x, start_y, end_x, end_y, dotting, mode) ==
    draw("draw_line", c, <<start_x, start_y, end_x, end_y, dotting>>, FALSE, mode, "",
         _draw_line(start_x, start_y, end_x, end_y, dotting))

draw_polygon(c, center_x, center_y, sides, radius, filled, mode) ==
    LET vertices == _regular_polygon_vertices(center_x, center_y, radius, sides)
    IN  draw("draw_polygon", c, <<center_x, center_y, sides, radius>>, filled, mode,
             vertices.raised, _draw_polygon(vertices.coordinates, filled))

draw_arc(c, x, y, radius, start_angle, end_angle, angle_step, filled, mode) ==
    draw("draw_arc", c, <<x, y, radius>> \o angle_step \o <<start_angle, end_angle>>, filled,
         mode, "", _draw_arc(x, y, radius, filled, start_angle, end_angle, angle_step))

draw_circle(c, center_x, center_y, radius, filled, angle_step, mode) ==
    draw("draw_circle", c, <<center_x, center_y, radius>> \o angle_step, filled, mode, "",
         _draw_arc(center_x, center_y, radius, filled, 0, 360, angle_step))

draw_rectangle(c, x, y, width, height, filled, mode) ==
    draw("draw_rectangle", c, <<x, y, width, height>>, filled, mode, "",
         _draw_rectangle(x, y, width, height, filled, 0))

draw_arrow(c, start, end_or_angle, size, mode) ==
    draw("draw_arrow", c, start \o <<size>> \o end_or_angle, FALSE, mode, "",
         _draw_arrow(start, end_or_angle, size))

NextShapes ==
    \/ \E c \in Objects, start_x \in LineXs, start_y \in LineYs, end_x \in LineXs,
          end_y \in LineYs, dotting \in Dottings, mode \in Modes :
            draw_line(c, start_x, start_y, end_x, end_y, dotting, mode)
    \/ \E c \in Objects, center_x \in CenterXs, center_y \in CenterYs, sides \in SideCounts,
          radius \in PolygonRadii, filled \in BOOLEAN, mode \in Modes :
            draw_polygon(c, center_x, center_y, sides, radius, filled, mode)
    \/ \E c \in Objects, x \in CenterXs, y \in CenterYs, radius \in ArcRadii,
          angles \in ArcAngles, angle_step \in AngleSteps, filled \in BOOLEAN, mode \in Modes :
            draw_arc(c, x, y, radius, angles[1], angles[2], angle_step, filled, mode)
    \/ \E c \in Objects, center_x \in CenterXs, center_y \in CenterYs, radius \in ArcRadii,
          angle_step \in AngleSteps, filled \in BOOLEAN, mode \in Modes :
            draw_circle(c, center_x, center_y, radius, filled, angle_step, mode)
    \/ \E c \in Objects, x \in CenterXs, y \in CenterYs, width \in RectangleWidths,
          height \in RectangleHeights, filled \in BOOLEAN, mode \in Modes :
            draw_rectangle(c, x, y, width, height, filled, mode)
    \/ \E c \in Objects, start \in ArrowStarts, size \in ArrowSizes, mode \in Modes :
            \E end_or_angle \in ArrowTargets(start) :
                draw_arrow(c, start, end_or_angle, size, mode)
    \/ \E c \in Objects, mode \in Modes : nops < MaxDraws /\ fill(c, mode)
    \/ \E c \in Objects, mode \in Modes :
            \E coords \in CoordSeqs(canvases[c]) : nops < MaxDraws /\ with_changes(c, coords, mode)

SpecShapes == InitShapes /\ [][NextShapes]_vars

\* The dot (x, y) of the canvas c is inside it and set.
DotSet(c, x, y) ==
    /\ 0 <= x /\ x < canvases[c].width /\ 0 <= y /\ y < canvases[c].height
    /\ bits_of(c)[cell_index(canvases[c], x, y) + 1] = 1

\* C18: the line primitive from a point to itself yields exactly that point
\* and raises nothing, and draw_line(x, y, x, y), adding, completes and
\* leaves the dot (x, y) set when it is inside the canvas.
C18_DegenerateLineSetsStart ==
    (/\ last.op = "draw_line"
     /\ last.mode = "add"
     /\ last.args[1] = last.args[3] /\ last.args[2] = last.args[4]
     /\ last.args[5] # 0) =>
        LET x == last.args[1]
            y == last.args[2]
            cv == canvases[last.self]
            gen == _draw_line(x, y, x, y, last.args[5])
        IN  /\ gen.raised = ""
            /\ gen.points = <<<<x, y>>>>
            /\ last.raised = ""
            /\ (0 <= x /\ x < cv.width /\ 0 <= y /\ y < cv.height) => DotSet(last.self, x, y)

\* The dots that an unrotated rectangle of even width and height centred on
\* (x, y) is made of: the outline through its four corners, and when filled
\* every dot between the left and the right edge of each row.
CentredRectangle(x, y, width, height, filled) ==
    LET left == x - width \div 2
        right == x + width \div 2
        bottom == y - height \div 2
        top == y + height \div 2
    IN  _draw_polygon(<<<<left, bottom>>, <<right, bottom>>, <<right, top>>, <<left, top>>>>,
                      filled).points

\* C19: draw_rectangle(x, y, width, height) with rotation 0 and the default
\* anchor completes without error and sets (or clears) exactly the dots of
\* the rectangle centred on (x, y) that are inside the canvas, outline only
\* or filled.
C19_RectangleCentred ==
    (last.op = "draw_rectangle" /\ last.mode \in {"add", "clear"}) =>
        LET c == last.self
            cv == last.pre_canvases[c]
            expected == CentredRectangle(last.args[1], last.args[2], last.args[3],
                                         last.args[4], last.filled)
        IN  /\ last.raised = ""
            /\ last.ret = c
            /\ bits_of(c) = changes(cv, pre_bits_of(c), expected,
                                    IF last.mode = "add" THEN 1 ELSE 0).ba

\* C20: draw_polygon with fewer than 3 sides, the polygon outline over no
\* vertices, and draw_arc and draw_circle with a radius of 0 or less each
\* raise an error, and the canvas is as it was before the call.
C20_MalformedShapeFailsFast ==
    /\ (last.op = "draw_polygon" /\ last.args[3] < 0) =>
            _draw_polygon(<<>>, last.filled).raised # ""
    /\ (\/ last.op = "draw_polygon" /\ last.args[3] < 3
        \/ last.op \in {"draw_arc", "draw_circle"} /\ last.args[3] <= 0) =>
            /\ last.raised # ""
            /\ heap = last.pre_heap
            /\ canvases = last.pre_canvases

\* The points of a sequence of points, as a set.
PointSet(points) == {points[k] : k \in 1..Len(points)}

\* C21: a filled arc from start_angle to end_angle, different modulo 360 and
\* with at least one arc point, is a filled wedge: the points consumed from
\* it include the segments from the centre to the first arc point and from
\* the last arc point to the centre, every arc point, and every dot between
\* the leftmost and the rightmost dot of that closed outline on each row.
C21_FilledArcIsWedge ==
    (/\ last.op = "draw_arc"
     /\ last.filled
     /\ last.mode \in {"add", "clear"}
     /\ last.args[5] % 360 # last.args[6] % 360
     /\ last.args[5] <= last.args[6]) =>
        LET x == last.args[1]
            y == last.args[2]
            arc == _draw_arc(x, y, last.args[3], FALSE, last.args[5], last.args[6],
                             <<last.args[4]>>).points
            first == arc[1]
            final == arc[Len(arc)]
            outline == _draw_line(x, y, first[1], first[2], 1).points
                       \o arc
                       \o _draw_line(final[1], final[2], x, y, 1).points
        IN  /\ last.raised = ""
            /\ PointSet(outline) \subseteq PointSet(last.coords)
            /\ PointSet(_fill_convex_outline(outline)) \subseteq PointSet(last.coords)

\* The dots the changes of the last call left on its canvas are those that
\* adding (or clearing) the points gives from the canvas as it was.
Drew(points) ==
    bits_of(last.self) = changes(last.pre_canvases[last.self], pre_bits_of(last.self), points,
                                 IF last.mode = "add" THEN 1 ELSE 0).ba

\* C22: draw_arrow(start, end_or_angle, size) completes without error and
\* sets (or clears) the dots of the line from start to end, end being
\* start plus the polar offset (size, angle) when an angle is given, and of
\* the two head segments from end, at +140 and -140 degrees from the
\* direction of the arrow and of length 0.4 * size.
C22_ArrowDrawn ==
    (last.op = "draw_arrow" /\ last.mode \in {"add", "clear"}) =>
        LET start == <<last.args[1], last.args[2]>>
            size == last.args[3]
            end_or_angle == SubSeq(last.args, 4, Len(last.args))
            end == arrow_end(start, end_or_angle, size)
            heads == arrow_head_offsets(start, end_or_angle, size)
            segment(k) == _draw_line(end[1], end[2], end[1] + heads[k][1],
                                     end[2] + heads[k][2], 1).points
        IN  /\ last.raised = ""
            /\ last.ret = last.self
            /\ Drew(_draw_line(start[1], start[2], end[1], end[2], 1).points
                    \o segment(1) \o segment(2))

DrawingOps ==
    {"draw_line", "draw_polygon", "draw_arc", "draw_circle", "draw_rectangle", "draw_arrow"}

\* C23: with_changes, the draw_* operations and fill, called with a mode
\* that is neither 'add' nor 'clear', raise an error, consume no coordinate
\* and leave every dot of every canvas as it was.
C23_InvalidModeRejected ==
    (last.op \in DrawingOps \cup {"with_changes", "fill"} /\ last.mode \notin {"add", "clear"}) =>
        /\ last.raised # ""
        /\ last.op \in DrawingOps => last.coords = <<>>
        /\ heap = last.pre_heap

(***************************************************************************)
(* One call of sparkline with a width, on the tables as constructed.       *)
(***************************************************************************)
MaxSparklines == 1

SparklineValues == {0, 1, 2, 5}

SparklineLists == UNION {[1..n -> SparklineValues] : n \in 0..MaxData}

SparklineWidths == {None, <<1>>, <<3>>}

NextSparkline ==
    \E data \in SparklineLists, width \in SparklineWidths, filled \in BOOLEAN,
       min_val \in MinVals, max_val \in MaxVals, base_level \in {0, 1}, rounding \in Roundings :
        /\ nops < MaxSparklines
        /\ call_sparkline(data, width, filled, min_val, max_val, base_level, rounding)

SpecSparkline == InitCodec /\ [][NextSparkline]_vars

\* C24: sparkline(data, width=w) of a non-empty data, w being at least 1,
\* returns exactly w characters: the data's characters followed by blank
\* cells when there are fewer than w, the characters of the latest values
\* only when there are more than 2 * w values.
C24_SparklineHasWidth ==
    (/\ last.op = "sparkline"
     /\ last.data # <<>>
     /\ last.width # None
     /\ last.width[1] >= 1) =>
        /\ last.raised = ""
        /\ Len(last.value) = last.width[1]
        /\ \A k \in 1..Len(last.value) :
                k > (Len(last.data) + 1) \div 2 => last.value[k] = BRAILLE_RANGE_START

\* The column that the k-th data value of a sparkline has in the string
\* value (the left column of a character for an odd k, the right one for
\* an even k) has no dot.
ColumnBlank(value, k) ==
    LET byte == value[(k + 1) \div 2] - BRAILLE_RANGE_START
        bits == IF k % 2 = 1 THEN {0, 1, 2, 6} ELSE {3, 4, 5, 7}
    IN  \A b \in bits : (byte \div (2 ^ b)) % 2 = 0

\* The last call is sparkline with base_level 0, rounding 'ceil' and no
\* width, and it returned a string.
DefaultSparkline ==
    /\ last.op = "sparkline"
    /\ last.base_level = 0 /\ last.rounding = "ceil" /\ last.width = None
    /\ last.data # <<>>
    /\ last.raised = ""

\* The bottom and the top of the scale of the last sparkline call.
BottomOfScale == IF last.min_val = None THEN SeqMin(last.data) ELSE last.min_val[1]

TopOfScale == IF last.max_val = None THEN SeqMax(last.data) ELSE last.max_val[1]

C26_SolidLineSetsBothEnds ==
    (/\ last.op = "draw_line"
     /\ last.mode = "add"
     /\ last.args[5] = 1
     /\ <<last.args[1], last.args[2]>> \in Dots(canvases[last.self])
     /\ <<last.args[3], last.args[4]>> \in Dots(canvases[last.self])
     /\ <<last.args[1], last.args[2]>> # <<last.args[3], last.args[4]>>) =>
        /\ last.raised = ""
        /\ DotSet(last.self, last.args[1], last.args[2])
        /\ DotSet(last.self, last.args[3], last.args[4])
        /\ \A p \in PointSet(last.coords) : DotSet(last.self, p[1], p[2])

(***************************************************************************)
(* The polygon outline and the convex fill applied to given points.        *)
(***************************************************************************)
MaxVertices == 3

MaxOutline == 4

VertexLists ==
    UNION {[1..n -> {<<0, 0>>, <<3, 0>>, <<3, 2>>, <<0, 3>>, <<1, 1>>}] : n \in 0..MaxVertices}

OutlineLists == UNION {[1..n -> {0, 1, 3} \X {0, 1}] : n \in 0..MaxOutline}

call_draw_polygon(vertices, filled) ==
    LET gen == _draw_polygon(vertices, filled)
    IN  /\ nops < MaxDraws
        /\ nops' = nops + 1
        /\ last' = [Called("_draw_polygon", 0) EXCEPT !.coords = vertices, !.filled = filled,
                        !.raised = gen.raised, !.value = gen.points]
        /\ UNCHANGED <<canvases, heap, drawn, tables, video>>

call_fill_convex_outline(outline) ==
    /\ nops < MaxDraws
    /\ nops' = nops + 1
    /\ last' = [Called("_fill_convex_outline", 0) EXCEPT !.coords = outline,
                    !.value = _fill_convex_outline(outline)]
    /\ UNCHANGED <<canvases, heap, drawn, tables, video>>

NextOutline ==
    \/ \E vertices \in VertexLists, filled \in BOOLEAN : call_draw_polygon(vertices, filled)
    \/ \E outline \in OutlineLists : call_fill_convex_outline(outline)

SpecOutline == InitCodec /\ [][NextOutline]_vars

RECURSIVE EdgesFrom(_, _)
\* The points of the line primitive for the edges i, i + 1, ... of the
\* vertices, the last edge leading back to the first vertex.
EdgesFrom(vertices, i) ==
    IF i > Len(vertices) THEN <<>>
    ELSE LET start == vertices[i]
             end == IF i = Len(vertices) THEN vertices[1] ELSE vertices[i + 1]
         IN  _draw_line(start[1], start[2], end[1], end[2], 1).points
             \o EdgesFrom(vertices, i + 1)

\* C27: the outline of a polygon is, in order, the points of the line
\* primitive for each edge from a vertex to the next, ending with the edge
\* from the last vertex to the first; and when at least two of the
\* vertices differ every vertex is among these points.
C27_PolygonOutlineEdges ==
    (last.op = "_draw_polygon" /\ ~last.filled) =>
        /\ last.raised = ""
        /\ last.value = EdgesFrom(last.coords, 1)
        /\ Cardinality(PointSet(last.coords)) >= 2 =>
                PointSet(last.coords) \subseteq PointSet(last.value)

C27_Witness ==
    /\ last.op = "_draw_polygon" /\ ~last.filled
    /\ last.coords = <<<<0, 0>>, <<3, 0>>, <<3, 2>>>>
    /\ last.value = <<<<0, 0>>, <<1, 0>>, <<2, 0>>, <<3, 0>>, <<3, 1>>,
                      <<3, 2>>, <<2, 1>>, <<1, 1>>>>

\* The dots from the leftmost to the rightmost point of the outline on each
\* of its rows.
RowsBetween(outline) ==
    {p \in (0..3) \X (0..1) :
        \E a \in PointSet(outline), b \in PointSet(outline) :
            a[2] = p[2] /\ b[2] = p[2] /\ a[1] <= p[1] /\ p[1] <= b[1]}

\* C28: the convex fill of an outline emits, for each y of the outline,
\* exactly the dots from the smallest to the largest x of the outline at
\* that y, each once, and no dot at another y; so that it contains every
\* point of the outline.
C28_ConvexFillRows ==
    last.op = "_fill_convex_outline" =>
        /\ PointSet(last.value) = RowsBetween(last.coords)
        /\ Cardinality(PointSet(last.value)) = Len(last.value)
        /\ PointSet(last.coords) \subseteq PointSet(last.value)

C28_Witness ==
    /\ last.op = "_fill_convex_outline"
    /\ last.coords = <<<<3, 0>>, <<1, 1>>, <<0, 0>>>>
    /\ last.value = <<<<0, 0>>, <<1, 0>>, <<2, 0>>, <<3, 0>>, <<1, 1>>>>

(***************************************************************************)
(* The command-line video player: extract_frames_from_video reading the    *)
(* standard output of the ffmpeg process in chunks, and display_video.     *)
(* A byte of the stream is its position in it, so that every byte differs  *)
(* from the others.                                                        *)
(***************************************************************************)
MaxStream == 8

VideoWidths == {1, 2}

InitVideo ==
    \E n \in 0..MaxStream, width \in VideoWidths :
        /\ canvases = <<>>
        /\ heap = <<>>
        /\ last = NoCall
        /\ nops = 0
        /\ tables = Tables
        /\ drawn = <<>>
        /\ video = [NoVideo EXCEPT !.data = [k \in 1..n |-> k],
                                   !.bytes_per_frame = 3 * width * 1,
                                   !.pc = "start"]

\* The frame split off a buffer that holds no whole frame after it.
take_frame_dropping(buf, bytes_per_frame) ==
    IF Len(buf) >= bytes_per_frame
    THEN [frames |-> <<PySlice(buf, 0, bytes_per_frame)>>, buf |-> <<>>]
    ELSE [frames |-> <<>>, buf |-> buf]

\* if len(buf) >= bytes_per_frame: bs = bytes(buf[:bytes_per_frame]);
\* buf = buf[bytes_per_frame:]; yield bs (as it is, or as the RGB image of
\* these bytes)
take_frame(buf, bytes_per_frame) ==
    IF Len(buf) >= bytes_per_frame
    THEN [frames |-> <<PySlice(buf, 0, bytes_per_frame)>>,
          buf |-> PySliceFrom(buf, bytes_per_frame)]
    ELSE [frames |-> <<>>, buf |-> buf]

\* One iteration of the loop of extract_frames_from_video in which
\* process.stdout.read(bytes_per_frame) returns the next n bytes: at least
\* one, at most bytes_per_frame, and no more than the stream still holds.
extract_frames_read(n) ==
    LET chunk == SubSeq(video.data, video.pos + 1, video.pos + n)
        r == take_frame(video.buf \o chunk, video.bytes_per_frame)
    IN  /\ video.pc \in {"start", "reading"}
        /\ n <= Len(video.data) - video.pos
        /\ video' = [video EXCEPT !.pc = "reading", !.pos = @ + n, !.chunks = Append(@, n),
                                  !.buf = r.buf, !.yielded = @ \o r.frames]
        /\ UNCHANGED <<canvases, heap, last, nops, drawn, tables>>

\* The iteration in which read returns b"" at the end of the stream: break,
\* await process.wait(), and the generator ends.
extract_frames_end ==
    /\ video.pc \in {"start", "reading"}
    /\ video.pos = Len(video.data)
    /\ video' = [video EXCEPT !.pc = "done"]
    /\ UNCHANGED <<canvases, heap, last, nops, drawn, tables>>

\* The parameters of extract_frames_from_video, and the keywords that
\* display_video calls it with.
extract_frames_parameters == {"process", "width", "height", "pil_images"}

display_video_keywords == {"video_file", "fps", "width", "height", "pil_images"}

\* display_video(file, size, color, output, verbose, keep_ratio, fps): it
\* creates the pool, the queue and the task show_frames and then calls
\* extract_frames_from_video with a keyword that is not one of its
\* parameters, which raises TypeError before the task has run and before
\* anything is read from the video or written.
display_video(color, keep_ratio, fps) ==
    /\ video.pc = "start"
    /\ ~(display_video_keywords \subseteq extract_frames_parameters)
    /\ last' = [Called("display_video", 0) EXCEPT !.args = <<color, keep_ratio>>, !.width = fps,
                    !.raised = "TypeError"]
    /\ video' = [video EXCEPT !.pc = "failed"]
    /\ UNCHANGED <<canvases, heap, nops, drawn, tables>>

NextVideo ==
    \/ \E n \in 1..video.bytes_per_frame : extract_frames_read(n)
    \/ extract_frames_end
    \/ \E color \in BOOLEAN, keep_ratio \in BOOLEAN, fps \in {None, <<30>>} :
            display_video(color, keep_ratio, fps)

SpecVideo == InitVideo /\ [][NextVideo]_vars

\* The whole frames of a byte stream, in order.
WholeFrames(data, bytes_per_frame) ==
    [k \in 1..(Len(data) \div bytes_per_frame) |->
        SubSeq(data, (k - 1) * bytes_per_frame + 1, k * bytes_per_frame)]

\* C29: display_video ends by returning from frame_queue.join, and the
\* frames then written to the output are the frames of the video, each
\* once and in the order of the video.
C29_FramesWrittenInOrder ==
    last.op = "display_video" =>
        /\ last.raised = ""
        /\ video.output = WholeFrames(video.data, video.bytes_per_frame)

\* C30: the frames that extract_frames_from_video has yielded have
\* bytes_per_frame bytes each; followed by the buffer they are the bytes
\* read so far, in order and each once; after each iteration the buffer
\* holds less than a frame; and at the end of the stream the frames are
\* the whole frames of the stream, only a trailing partial frame being
\* left out.
C30_FramesAreStreamPrefix ==
    video.pc \in {"reading", "done"} =>
        /\ \A k \in 1..Len(video.yielded) : Len(video.yielded[k]) = video.bytes_per_frame
        /\ chain(video.yielded) \o video.buf = SubSeq(video.data, 1, video.pos)
        /\ Len(video.buf) < video.bytes_per_frame
        /\ video.pc = "done" =>
                video.yielded = WholeFrames(video.data, video.bytes_per_frame)

C30_Witness ==
    /\ video.pc = "done"
    /\ video.bytes_per_frame = 3
    /\ video.chunks = <<2, 3, 2>>
    /\ video.yielded = <<<<1, 2, 3>>, <<4, 5, 6>>>>
    /\ video.buf = <<7>>

====
